---- MODULE Spec2Model ----
(***************************************************************************)
(* Conway's Game of Life engines of life.rs: SparseLife (64x64 bit blocks  *)
(* in a hash map), ArenaLife (64x64 bit blocks in an arena with cached     *)
(* neighbour indices) and HashLife (hash-consed quadtree).                 *)
(*                                                                         *)
(* A u64 is modelled as the set of its one-bit positions (a subset of      *)
(* 0..63): & is intersection, | is union, ^ is symmetric difference,       *)
(* << and >> move the positions and drop those that leave the word.        *)
(* An Option<T> is a sequence of length 0 (None) or 1 (Some).              *)
(* A coordinate (I64Vec2) is a pair <<x, y>>.                              *)
(***************************************************************************)
EXTENDS Integers, Sequences, FiniteSets, TLC

\* ------------------------------------------------------------------ u64

WordBits == 64

Word == 0 .. (WordBits - 1)

Shl(w, k) == { b + k : b \in { c \in w : c + k < WordBits } }

Shr(w, k) == { b - k : b \in { c \in w : c >= k } }

Xor(a, b) == (a \ b) \cup (b \ a)

Not(a) == Word \ a

\* the word with the single bit i: 1u64 << i
Bit(i) == { i }

\* f itself, computed once: TLC keeps [x \in S |-> e] unevaluated and would
\* compute e again at every application
Eager(f) == f @@ << >>

\* TRUE, once v has been computed.  TLC computes an operator's argument when
\* the operator first uses it: a loop tests Computed on the value it was given
\* before it goes on, so that the iterations are computed one after the other
\* and not nested in each other
Computed(v) == v = v

None == << >>

Some(v) == << v >>

\* ------------------------------------------------- SWAR neighbour counting

\* one iteration of `for x in [...]`: c0 = s0 & x; s0 ^= x; c1 = s1 & c0;
\* s1 ^= c0; s2 |= c1.  s is <<s0, s1, s2>>.
AdderStep(s, x) ==
    LET c0 == s[1] \cap x
        c1 == s[2] \cap c0
    IN  << Xor(s[1], x), Xor(s[2], c0), s[3] \cup c1 >>

RECURSIVE AdderFold(_, _, _)
AdderFold(s, xs, i) ==
    IF i > Len(xs) \/ ~Computed(s) THEN s ELSE AdderFold(AdderStep(s, xs[i]), xs, i + 1)

\* the three bit planes after the eight neighbour vectors went through
AdderTree(xs) == AdderFold(<< {}, {}, {} >>, xs, 1)

\* LifeRule without its last mask: (s1 & !s2) alone, which keeps or bears every
\* cell with two or three neighbours
LifeRuleWithoutCenter(s, center) == s[2] \cap Not(s[3])

\* the B3/S23 rule on the bit planes, (s1 & !s2) & (center | s0), of calc_row!
\* and, as (b & !c) & (a | input), of calc_leaf and step_4_rows
LifeRule(s, center) == (s[2] \cap Not(s[3])) \cap (center \cup s[1])

\* calc_row! of both block engines
CalcRow(up, center, down, w_u, w_c, w_d, e_u, e_c, e_d) ==
    LET l_up   == Shl(up, 1) \cup w_u
        r_up   == Shr(up, 1) \cup e_u
        l_curr == Shl(center, 1) \cup w_c
        r_curr == Shr(center, 1) \cup e_c
        l_down == Shl(down, 1) \cup w_d
        r_down == Shr(down, 1) \cup e_d
    IN  LifeRule(AdderTree(<< l_up, up, r_up, l_curr, r_curr, l_down, down, r_down >>),
                 center)

\* ------------------------------------------------------------ block engines

BLOCK_SIZE == 64

Rows == 0 .. (BLOCK_SIZE - 1)

EmptyRows == Eager([y \in Rows |-> {}])

\* an empty hash map
EmptyMap == Eager([p \in {} |-> {}])

\* x.div_euclid(64), x.rem_euclid(64): TLA+'s \div and % round towards
\* minus infinity for a positive divisor, as the Euclidean forms do
GetCoords(x, y) ==
    [pos |-> << x \div BLOCK_SIZE, y \div BLOCK_SIZE >>,
     lx  |-> x % BLOCK_SIZE,
     ly  |-> y % BLOCK_SIZE]

Offset(pos, dx, dy) == << pos[1] + dx, pos[2] + dy >>

\* pos + (dx, dy) for dx, dy in -1..=1
Dilate(ps) == { Offset(p, dx, dy) : p \in ps, dx \in {-1, 0, 1}, dy \in {-1, 0, 1} }

\* the elements of a finite set of integers in ascending order: the i-th has
\* i - 1 elements below it
Ascending(xs) ==
    Eager([i \in 1 .. Cardinality(xs) |->
              CHOOSE a \in xs : Cardinality({ b \in xs : b < a }) = i - 1])

\* the one bits of a block as pairs <<lx, ly>>
BlockBits(rows) == UNION { { << x, y >> : x \in rows[y] } : y \in Rows }

\* a before b in `for y in 0..64 { for x in 0..64 { ... } }`
RowMajor(a, b) == a[2] < b[2] \/ (a[2] = b[2] /\ a[1] < b[1])

\* the cells one block pushes in export: for y { if row == 0 { continue }
\* for x { if (row >> x) & 1 == 1 { push (base_x + x, base_y + y) } } }
BlockCells(rows, base_x, base_y) ==
    LET bits == BlockBits(rows)
    IN  Eager([i \in 1 .. Cardinality(bits) |->
                  LET c == CHOOSE a \in bits :
                               Cardinality({ b \in bits : RowMajor(b, a) }) = i - 1
                  IN  << base_x + c[1], base_y + c[2] >>])

\* a map's keys in the order the iteration visits them (the hash map's order
\* is unspecified; the model fixes one: by x, then by y)
KeyBefore(a, b) == a[1] < b[1] \/ (a[1] = b[1] /\ a[2] < b[2])

KeyOrder(ps) ==
    Eager([i \in 1 .. Cardinality(ps) |->
              CHOOSE a \in ps : Cardinality({ b \in ps : KeyBefore(b, a) }) = i - 1])

RECURSIVE SumSeq(_, _)
SumSeq(s, i) == IF i > Len(s) THEN 0 ELSE s[i] + SumSeq(s, i + 1)

\* rows.iter().map(|r| r.count_ones()).sum()
RowsPopulation(rows) == Cardinality(BlockBits(rows))

\* ---------------------------------------------------------------- SparseLife

\* SparseLife::new
SparseNew ==
    [blocks |-> EmptyMap, active |-> {}, next_blocks |-> EmptyMap, next_active |-> {},
     to_evaluate |-> {}, generation |-> 0]

\* bit_w: b.map(|x| (x.rows[row] >> 63) & 1).unwrap_or(0)
SparseBitW(b, row) == IF b = None THEN {} ELSE Shr(b[1][row], 63) \cap Bit(0)

\* bit_e: b.map(|x| (x.rows[row] & 1) << 63).unwrap_or(0)
SparseBitE(b, row) == IF b = None THEN {} ELSE Shl(b[1][row] \cap Bit(0), 63)

SparseNextRow(current, n, s, w, e, nw, ne, sw, se, y) ==
    IF y = 0 THEN
        CalcRow(IF n = None THEN {} ELSE n[1][BLOCK_SIZE - 1], current[0], current[1],
                SparseBitW(nw, BLOCK_SIZE - 1), SparseBitW(w, 0), SparseBitW(w, 1),
                SparseBitE(ne, BLOCK_SIZE - 1), SparseBitE(e, 0), SparseBitE(e, 1))
    ELSE IF y = BLOCK_SIZE - 1 THEN
        CalcRow(current[BLOCK_SIZE - 2], current[BLOCK_SIZE - 1],
                IF s = None THEN {} ELSE s[1][0],
                SparseBitW(w, BLOCK_SIZE - 2), SparseBitW(w, BLOCK_SIZE - 1),
                SparseBitW(sw, 0),
                SparseBitE(e, BLOCK_SIZE - 2), SparseBitE(e, BLOCK_SIZE - 1),
                SparseBitE(se, 0))
    ELSE
        CalcRow(current[y - 1], current[y], current[y + 1],
                SparseBitW(w, y - 1), SparseBitW(w, y), SparseBitW(w, y + 1),
                SparseBitE(e, y - 1), SparseBitE(e, y), SparseBitE(e, y + 1))

\* SparseLife::evolve_block: (next, alive)
SparseEvolveBlock(current, n, s, w, e, nw, ne, sw, se) ==
    LET next == Eager([y \in Rows |-> SparseNextRow(current, n, s, w, e, nw, ne, sw, se, y)])
    IN  [rows |-> next, alive |-> \E y \in Rows : next[y] # {}]

\* self.blocks.get(&pos)
SparseGet(blocks, pos) == IF pos \in DOMAIN blocks THEN Some(blocks[pos]) ELSE None

\* the loop body of set_cells without the marking of the active set
SparseSetOneNoMark(s, pos, alive) ==
    LET c     == GetCoords(pos[1], pos[2])
        old   == IF c.pos \in DOMAIN s.blocks THEN s.blocks[c.pos] ELSE EmptyRows
        row   == IF alive THEN old[c.ly] \cup Bit(c.lx) ELSE old[c.ly] \cap Not(Bit(c.lx))
        block == Eager([old EXCEPT ![c.ly] = row])
    IN  [s EXCEPT !.blocks = Eager([p \in DOMAIN s.blocks \cup {c.pos} |->
                                       IF p = c.pos THEN block ELSE s.blocks[p]])]

\* one iteration of the loop of set_cells
SparseSetOne(s, pos, alive) ==
    LET c     == GetCoords(pos[1], pos[2])
        old   == IF c.pos \in DOMAIN s.blocks THEN s.blocks[c.pos] ELSE EmptyRows
        row   == IF alive THEN old[c.ly] \cup Bit(c.lx) ELSE old[c.ly] \cap Not(Bit(c.lx))
        block == Eager([old EXCEPT ![c.ly] = row])
    IN  [s EXCEPT !.blocks = Eager([p \in DOMAIN s.blocks \cup {c.pos} |->
                                       IF p = c.pos THEN block ELSE s.blocks[p]]),
                  !.active = s.active \cup Dilate({c.pos})]

RECURSIVE SparseSetFrom(_, _, _, _)
SparseSetFrom(s, coords, alive, i) ==
    IF i > Len(coords) \/ ~Computed(s) THEN s
    ELSE SparseSetFrom(SparseSetOne(s, coords[i], alive), coords, alive, i + 1)

SparseSetCells(s, coords, alive) == SparseSetFrom(s, coords, alive, 1)

\* set_cell that writes the cell to the east as well
SparseSetCellAndNext(s, pos, alive) ==
    SparseSetCells(s, << pos, << pos[1] + 1, pos[2] >> >>, alive)

SparseSetCell(s, pos, alive) == SparseSetCells(s, << pos >>, alive)

SparseGetCell(s, pos) ==
    LET c == GetCoords(pos[1], pos[2])
    IN  IF c.pos \in DOMAIN s.blocks THEN c.lx \in s.blocks[c.pos][c.ly] ELSE FALSE

SparseClear(s) == SparseNew

SparseImport(s, alive_cells) == SparseSetCells(SparseClear(s), alive_cells, TRUE)

RECURSIVE SparseExportFrom(_, _, _)
SparseExportFrom(blocks, keys, i) ==
    IF i > Len(keys) THEN << >>
    ELSE BlockCells(blocks[keys[i]], keys[i][1] * BLOCK_SIZE, keys[i][2] * BLOCK_SIZE)
         \o SparseExportFrom(blocks, keys, i + 1)

SparseExport(s) == SparseExportFrom(s.blocks, KeyOrder(DOMAIN s.blocks), 1)

SparsePopulation(s) ==
    LET keys == KeyOrder(DOMAIN s.blocks)
    IN  SumSeq([i \in 1 .. Len(keys) |-> RowsPopulation(s.blocks[keys[i]])], 1)

\* the closure of step without the blocks that do not exist yet
SparseEvaluateStoredOnly(blocks, pos) ==
    LET get_b(dx, dy) == SparseGet(blocks, Offset(pos, dx, dy))
        current == get_b(0, 0)
    IN  IF current = None THEN None
        ELSE LET r == SparseEvolveBlock(current[1],
                                        get_b(0, -1), get_b(0, 1), get_b(-1, 0), get_b(1, 0),
                                        get_b(-1, -1), get_b(1, -1), get_b(-1, 1), get_b(1, 1))
             IN  IF r.alive THEN Some(r.rows) ELSE None

\* the closure given to filter_map in step: Some(next_block) or None
SparseEvaluate(blocks, pos) ==
    LET get_b(dx, dy) == SparseGet(blocks, Offset(pos, dx, dy))
        current == get_b(0, 0)
        has_neighbor == \E dy \in {-1, 0, 1} : \E dx \in {-1, 0, 1} :
                            (dx # 0 \/ dy # 0) /\ Offset(pos, dx, dy) \in DOMAIN blocks
    IN  IF current = None /\ ~has_neighbor THEN None
        ELSE LET r == SparseEvolveBlock(IF current = None THEN EmptyRows ELSE current[1],
                                        get_b(0, -1), get_b(0, 1), get_b(-1, 0), get_b(1, 0),
                                        get_b(-1, -1), get_b(1, -1), get_b(-1, 1), get_b(1, 1))
             IN  IF r.alive THEN Some(r.rows) ELSE None

\* one iteration of the loop of step
SparseStepOnce(s) ==
    LET to_evaluate == Dilate(s.active)
        evaluated   == Eager([pos \in to_evaluate |-> SparseEvaluate(s.blocks, pos)])
        kept        == { pos \in to_evaluate : evaluated[pos] # None }
    IN  [blocks      |-> Eager([pos \in kept |-> evaluated[pos][1]]),
         active      |-> kept,
         next_blocks |-> s.blocks,
         next_active |-> s.active,
         to_evaluate |-> to_evaluate,
         generation  |-> s.generation + 1]

RECURSIVE SparseStepLoop(_, _)
SparseStepLoop(s, k) ==
    IF k = 0 \/ ~Computed(s) THEN s ELSE SparseStepLoop(SparseStepOnce(s), k - 1)

\* SparseLife::step: the engine afterwards and the value returned
SparseStep(s, steps) == [engine |-> SparseStepLoop(s, steps), ret |-> steps]


\* ----------------------------------------------------------------- ArenaLife

N == 0
S == 1
W == 2
E == 3
NW == 4
NE == 5
SW == 6
SE == 7

Dirs == 0 .. 7

\* Block::default
ArenaBlockDefault ==
    [rows |-> EmptyRows, neighbors |-> Eager([d \in Dirs |-> None]), alive |-> FALSE]

\* ArenaLife::new.  The arena is the sequence of its blocks and an Index is a
\* position in it; active_indices is kept as the set of its pairs (its order
\* is the hash map's)
ArenaNew ==
    [arena |-> << >>, lookup |-> EmptyMap, active_indices |-> {},
     growth_requests |-> << >>, update_buffer |-> << >>, generation |-> 0]

\* the table of link: (dx, dy, dir, opp_dir)
LinkOffsets ==
    << << 0, -1, N, S >>, << 0, 1, S, N >>, << -1, 0, W, E >>, << 1, 0, E, W >>,
       << -1, -1, NW, SE >>, << 1, -1, NE, SW >>, << -1, 1, SW, NE >>, << 1, 1, SE, NW >> >>

SetNeighbor(arena, idx, dir, val) ==
    [arena EXCEPT ![idx] =
        [@ EXCEPT !.neighbors = Eager([d \in Dirs |-> IF d = dir THEN val ELSE @[d]])]]

\* the loop body of link without the reverse pointer of the neighbour
ArenaLinkOneForward(arena, lookup, pos, idx, o) ==
    LET neighbor_pos == Offset(pos, o[1], o[2])
    IN  IF neighbor_pos \in DOMAIN lookup
        THEN SetNeighbor(arena, idx, o[3], Some(lookup[neighbor_pos]))
        ELSE arena

\* one iteration of the loop of link; o is (dx, dy, dir, opp_dir)
ArenaLinkOne(arena, lookup, pos, idx, o) ==
    LET neighbor_pos == Offset(pos, o[1], o[2])
    IN  IF neighbor_pos \in DOMAIN lookup
        THEN SetNeighbor(SetNeighbor(arena, idx, o[3], Some(lookup[neighbor_pos])),
                         lookup[neighbor_pos], o[4], Some(idx))
        ELSE arena

RECURSIVE ArenaLinkFrom(_, _, _, _, _)
ArenaLinkFrom(arena, lookup, pos, idx, i) ==
    IF i > Len(LinkOffsets) \/ ~Computed(arena) THEN arena
    ELSE ArenaLinkFrom(ArenaLinkOne(arena, lookup, pos, idx, LinkOffsets[i]),
                       lookup, pos, idx, i + 1)

\* ArenaLife::link
ArenaLink(a, pos, idx) == [a EXCEPT !.arena = ArenaLinkFrom(a.arena, a.lookup, pos, idx, 1)]

\* ArenaLife::spawn_block: the engine afterwards and the index returned
ArenaSpawnBlock(a, pos) ==
    IF pos \in DOMAIN a.lookup THEN [engine |-> a, idx |-> a.lookup[pos]]
    ELSE LET idx == Len(a.arena) + 1
             ins == [a EXCEPT !.arena  = Append(a.arena, ArenaBlockDefault),
                              !.lookup = Eager([p \in DOMAIN a.lookup \cup {pos} |->
                                                   IF p = pos THEN idx ELSE a.lookup[p]])]
         IN  [engine |-> ArenaLink(ins, pos, idx), idx |-> idx]

\* ArenaSetOne without `block.alive = true`
ArenaSetOneKeepsFlag(a, pos, alive) ==
    LET c  == GetCoords(pos[1], pos[2])
        sp == ArenaSpawnBlock(a, c.pos)
        b  == sp.engine.arena[sp.idx]
    IN  [sp.engine EXCEPT !.arena[sp.idx] =
            IF alive
            THEN [b EXCEPT !.rows = Eager([b.rows EXCEPT ![c.ly] = @ \cup Bit(c.lx)])]
            ELSE [b EXCEPT !.rows = Eager([b.rows EXCEPT ![c.ly] = @ \cap Not(Bit(c.lx))])]]

\* one iteration of the loop of set_cells
ArenaSetOne(a, pos, alive) ==
    LET c  == GetCoords(pos[1], pos[2])
        sp == ArenaSpawnBlock(a, c.pos)
        b  == sp.engine.arena[sp.idx]
    IN  [sp.engine EXCEPT !.arena[sp.idx] =
            IF alive
            THEN [b EXCEPT !.rows = Eager([b.rows EXCEPT ![c.ly] = @ \cup Bit(c.lx)]),
                           !.alive = TRUE]
            ELSE [b EXCEPT !.rows = Eager([b.rows EXCEPT ![c.ly] = @ \cap Not(Bit(c.lx))])]]

RECURSIVE ArenaSetFrom(_, _, _, _)
ArenaSetFrom(a, coords, alive, i) ==
    IF i > Len(coords) \/ ~Computed(a) THEN a
    ELSE ArenaSetFrom(ArenaSetOne(a, coords[i], alive), coords, alive, i + 1)

ArenaSetCells(a, coords, alive) == ArenaSetFrom(a, coords, alive, 1)

ArenaSetCell(a, pos, alive) == ArenaSetCells(a, << pos >>, alive)

ArenaGetCell(a, pos) ==
    LET c == GetCoords(pos[1], pos[2])
    IN  IF c.pos \in DOMAIN a.lookup THEN c.lx \in a.arena[a.lookup[c.pos]].rows[c.ly]
        ELSE FALSE

\* clear leaves growth_requests and update_buffer as they are
ArenaClear(a) ==
    [a EXCEPT !.arena = << >>, !.lookup = EmptyMap, !.active_indices = {},
              !.generation = 0]

ArenaImport(a, alive_cells) == ArenaSetCells(ArenaClear(a), alive_cells, TRUE)

RECURSIVE ArenaExportFrom(_, _, _)
ArenaExportFrom(a, keys, i) ==
    IF i > Len(keys) THEN << >>
    ELSE LET block == a.arena[a.lookup[keys[i]]]
         IN  (IF ~block.alive THEN << >>
              ELSE BlockCells(block.rows, keys[i][1] * BLOCK_SIZE,
                              keys[i][2] * BLOCK_SIZE))
             \o ArenaExportFrom(a, keys, i + 1)

ArenaExport(a) == ArenaExportFrom(a, KeyOrder(DOMAIN a.lookup), 1)

ArenaPopulation(a) ==
    SumSeq([i \in 1 .. Len(a.arena) |-> RowsPopulation(a.arena[i].rows)], 1)


\* get_row of evolve_block_internal
ArenaGetRow(arena, current, dir, row) ==
    IF current.neighbors[dir] = None THEN {} ELSE arena[current.neighbors[dir][1]].rows[row]

\* bit_w of evolve_block_internal: (rows[row] >> 63) & 1
ArenaBitW(arena, current, dir, row) ==
    Shr(ArenaGetRow(arena, current, dir, row), 63) \cap Bit(0)

\* bit_e of evolve_block_internal: (rows[row] & 1) << 63
ArenaBitE(arena, current, dir, row) ==
    Shl(ArenaGetRow(arena, current, dir, row) \cap Bit(0), 63)

ArenaNextRow(arena, current, y) ==
    IF y = 0 THEN
        CalcRow(ArenaGetRow(arena, current, N, BLOCK_SIZE - 1),
                current.rows[0], current.rows[1],
                ArenaBitW(arena, current, NW, BLOCK_SIZE - 1),
                ArenaBitW(arena, current, W, 0), ArenaBitW(arena, current, W, 1),
                ArenaBitE(arena, current, NE, BLOCK_SIZE - 1),
                ArenaBitE(arena, current, E, 0), ArenaBitE(arena, current, E, 1))
    ELSE IF y = BLOCK_SIZE - 1 THEN
        CalcRow(current.rows[BLOCK_SIZE - 2], current.rows[BLOCK_SIZE - 1],
                ArenaGetRow(arena, current, S, 0),
                ArenaBitW(arena, current, W, BLOCK_SIZE - 2),
                ArenaBitW(arena, current, W, BLOCK_SIZE - 1),
                ArenaBitW(arena, current, SW, 0),
                ArenaBitE(arena, current, E, BLOCK_SIZE - 2),
                ArenaBitE(arena, current, E, BLOCK_SIZE - 1),
                ArenaBitE(arena, current, SE, 0))
    ELSE IF current.rows[y - 1] \cup current.rows[y] \cup current.rows[y + 1] = {}
    THEN {}   \* continue: next_rows[y] keeps its 0
    ELSE
        CalcRow(current.rows[y - 1], current.rows[y], current.rows[y + 1],
                ArenaBitW(arena, current, W, y - 1), ArenaBitW(arena, current, W, y),
                ArenaBitW(arena, current, W, y + 1),
                ArenaBitE(arena, current, E, y - 1), ArenaBitE(arena, current, E, y),
                ArenaBitE(arena, current, E, y + 1))

\* the growth_flags byte of evolve_block_internal, as the set of its bits
ArenaGrowthFlags(current) ==
    LET all_or == UNION { current.rows[r] : r \in Rows }
        absent(dir) == current.neighbors[dir] = None
    IN  { d \in Dirs :
            \/ d = N  /\ current.rows[0] # {} /\ absent(N)
            \/ d = S  /\ current.rows[BLOCK_SIZE - 1] # {} /\ absent(S)
            \/ d = W  /\ Shr(all_or, 63) # {} /\ absent(W)
            \/ d = E  /\ all_or \cap Bit(0) # {} /\ absent(E)
            \/ d = NW /\ Shr(current.rows[0], 63) \cap Bit(0) = Bit(0) /\ absent(NW)
            \/ d = NE /\ current.rows[0] \cap Bit(0) = Bit(0) /\ absent(NE)
            \/ d = SW /\ Shr(current.rows[BLOCK_SIZE - 1], 63) \cap Bit(0) = Bit(0)
                      /\ absent(SW)
            \/ d = SE /\ current.rows[BLOCK_SIZE - 1] \cap Bit(0) = Bit(0) /\ absent(SE) }

\* ArenaLife::evolve_block_internal: (next_rows, is_alive, growth_flags)
ArenaEvolveBlockInternal(arena, current_idx) ==
    LET current == arena[current_idx]
        next    == Eager([y \in Rows |-> ArenaNextRow(arena, current, y)])
    IN  [rows |-> next, alive |-> \E y \in Rows : next[y] # {},
         growth |-> ArenaGrowthFlags(current)]

\* the position a growth flag asks for, as step pushes it
GrowthTarget(pos, d) ==
    IF d = N THEN Offset(pos, 0, -1)
    ELSE IF d = S THEN Offset(pos, 0, 1)
    ELSE IF d = W THEN Offset(pos, -1, 0)
    ELSE IF d = E THEN Offset(pos, 1, 0)
    ELSE IF d = NW THEN Offset(pos, -1, -1)
    ELSE IF d = NE THEN Offset(pos, 1, -1)
    ELSE IF d = SW THEN Offset(pos, -1, 1)
    ELSE Offset(pos, 1, 1)

RECURSIVE ArenaSpawnAll(_, _, _)
ArenaSpawnAll(a, requests, i) ==
    IF i > Len(requests) \/ ~Computed(a) THEN a
    ELSE ArenaSpawnAll(ArenaSpawnBlock(a, requests[i]).engine, requests, i + 1)

\* one iteration of the loop of step
ArenaStepOnce(a) ==
    LET active  == { << p, a.lookup[p] >> : p \in DOMAIN a.lookup }
        results == Eager([pi \in active |-> ArenaEvolveBlockInternal(a.arena, pi[2])])
        growth_requests == UNION { { GrowthTarget(pi[1], d) : d \in results[pi].growth }
                                   : pi \in active }
        \* update_buffer applied: block.rows = rows; block.alive = alive
        apply(idx, block) ==
            IF \E pi \in active : pi[2] = idx
            THEN LET r == results[CHOOSE pi \in active : pi[2] = idx]
                 IN  [block EXCEPT !.rows = r.rows, !.alive = r.alive]
            ELSE block
        updated == [a EXCEPT
                      !.arena = Eager([idx \in 1 .. Len(a.arena) |->
                                        apply(idx, a.arena[idx])]),
                      !.active_indices = active]
        \* sort_unstable_by x then y, dedup
        sorted  == KeyOrder(growth_requests)
        spawned == ArenaSpawnAll(updated, sorted, 1)
    IN  [spawned EXCEPT !.generation = a.generation + 1]

RECURSIVE ArenaStepLoop(_, _)
ArenaStepLoop(a, k) ==
    IF k = 0 \/ ~Computed(a) THEN a ELSE ArenaStepLoop(ArenaStepOnce(a), k - 1)

\* ArenaLife::step: the engine afterwards and the value returned
ArenaStep(a, steps) == [engine |-> ArenaStepLoop(a, steps), ret |-> steps]


\* ------------------------------------------------------------ HashLife nodes
\* A node is the value of its data: hash-consing (HashLifeCache::get_node)
\* makes two nodes with equal data the same Arc, so pointer identity of the
\* code is equality of values here.  The canonical empty node of a level
\* above 3 is written without its children (they are the empty node one level
\* down), which keeps a deep, mostly empty tree small.

LEAF_LEVEL == 3

\* get_node(NodeData::Leaf(bits))
GetLeaf(bits) == [level |-> LEAF_LEVEL, bits |-> bits, population |-> Cardinality(bits)]

\* HashLifeCache::empty_node
EmptyNode(level) ==
    IF level <= LEAF_LEVEL THEN GetLeaf({}) ELSE [level |-> level, population |-> 0]

IsLeaf(node) == node.level = LEAF_LEVEL

IsEmptyBranch(node) == node.level > LEAF_LEVEL /\ node.population = 0

\* the fields of NodeData::Branch
Nw(node) == IF IsEmptyBranch(node) THEN EmptyNode(node.level - 1) ELSE node.nw
Ne(node) == IF IsEmptyBranch(node) THEN EmptyNode(node.level - 1) ELSE node.ne
Sw(node) == IF IsEmptyBranch(node) THEN EmptyNode(node.level - 1) ELSE node.sw
Se(node) == IF IsEmptyBranch(node) THEN EmptyNode(node.level - 1) ELSE node.se

\* HashLifeCache::join, with get_node's population
Join(nw, ne, sw, se) ==
    LET population == nw.population + ne.population + sw.population + se.population
    IN  IF population = 0 /\ ne.level = nw.level /\ sw.level = nw.level /\ se.level = nw.level
        THEN EmptyNode(nw.level + 1)
        ELSE [level |-> nw.level + 1, nw |-> nw, ne |-> ne, sw |-> sw, se |-> se,
              population |-> population]

\* what a panic!() leaves: no node
Panic == [level |-> 0, population |-> 0]

\* one of the calls that gave the nodes of q has panicked: the caller unwinds
Panicked(q) == \E i \in 1 .. Len(q) : q[i] = Panic

\* 0x7F7F7F7F7F7F7F7F and 0xFEFEFEFEFEFEFEFE
Mask7F == { b \in Word : b % 8 # 7 }
MaskFE == { b \in Word : b % 8 # 0 }

\* HashLifeCache::calc_leaf
CalcLeaf(input) ==
    IF input = {} THEN EmptyNode(LEAF_LEVEL)
    ELSE LET l  == Shr(input, 1) \cap Mask7F
             r  == Shl(input, 1) \cap MaskFE
             u  == Shl(input, 8)
             d  == Shr(input, 8)
             ul == Shr(u, 1) \cap Mask7F
             ur == Shl(u, 1) \cap MaskFE
             dl == Shr(d, 1) \cap Mask7F
             dr == Shl(d, 1) \cap MaskFE
             t  == AdderTree(<< l, r, u, d, ul, ur, dl, dr >>)
         IN  GetLeaf(LifeRule(t, input))

\* MASK_L 0x7FFF7FFF7FFF7FFF and MASK_R 0xFFFEFFFEFFFEFFFE
MASK_L == { b \in Word : b % 16 # 15 }
MASK_R == { b \in Word : b % 16 # 0 }

\* 0xFF
MaskFF == 0 .. 7

\* HashLifeCache::step_4_rows
Step4Rows(curr, up_block, down_block) ==
    LET u  == Shl(curr, 16) \cup Shr(up_block, 48)
        d  == Shr(curr, 16) \cup Shl(down_block, 48)
        l  == Shr(curr, 1) \cap MASK_L
        r  == Shl(curr, 1) \cap MASK_R
        ul == Shr(u, 1) \cap MASK_L
        ur == Shl(u, 1) \cap MASK_R
        dl == Shr(d, 1) \cap MASK_L
        dr == Shl(d, 1) \cap MASK_R
        t  == AdderTree(<< l, r, u, d, ul, ur, dl, dr >>)
    IN  LifeRule(t, curr)

\* HashLifeCache::zip_quadrants
ZipQuadrants(left, right, shift) ==
    LET l_part == Shr(left, shift)
        r_part == Shr(right, shift)
        row(k) == (Shr(l_part, 8 * k) \cap MaskFF) \cup Shl(Shr(r_part, 8 * k) \cap MaskFF, 8)
    IN  row(0) \cup Shl(row(1), 16) \cup Shl(row(2), 32) \cup Shl(row(3), 48)

\* HashLifeCache::compress_center
CompressCenter(block) ==
    LET r(k) == Shr(block, 16 * k + 4) \cap MaskFF
    IN  r(0) \cup Shl(r(1), 8) \cup Shl(r(2), 16) \cup Shl(r(3), 24)

RECURSIVE Grid4Loop(_, _)
Grid4Loop(b, steps) ==
    IF steps = 0 \/ ~Computed(b) THEN b
    ELSE Grid4Loop(<< Step4Rows(b[1], {}, b[2]), Step4Rows(b[2], b[1], b[3]),
                      Step4Rows(b[3], b[2], b[4]), Step4Rows(b[4], b[3], {}) >>, steps - 1)

\* HashLifeCache::calc_level_4_grid
CalcLevel4Grid(nw, ne, sw, se, steps) ==
    IF ~(IsLeaf(nw) /\ IsLeaf(ne) /\ IsLeaf(sw) /\ IsLeaf(se)) THEN Panic
    ELSE LET b == Grid4Loop(<< ZipQuadrants(nw.bits, ne.bits, 0),
                               ZipQuadrants(nw.bits, ne.bits, 32),
                               ZipQuadrants(sw.bits, se.bits, 0),
                               ZipQuadrants(sw.bits, se.bits, 32) >>, steps)
         IN  GetLeaf(CompressCenter(b[2]) \cup Shl(CompressCenter(b[3]), 32))

\* HashLifeCache::centered_bits
CenteredBits(nw, ne, sw, se) ==
    GetLeaf({ y * 8 + x : << x, y >> \in
        { c \in (0 .. 7) \X (0 .. 7) :
            LET global_x == c[1] + 4
                global_y == c[2] + 4
            IN  IF global_x < 8 /\ global_y < 8 THEN (global_y * 8 + global_x) \in nw
                ELSE IF global_x >= 8 /\ global_y < 8
                     THEN (global_y * 8 + (global_x - 8)) \in ne
                ELSE IF global_x < 8 /\ global_y >= 8
                     THEN ((global_y - 8) * 8 + global_x) \in sw
                ELSE ((global_y - 8) * 8 + (global_x - 8)) \in se } })

\* HashLifeCache::centered_sub
CenteredSub(nw, ne, sw, se) ==
    IF IsLeaf(nw) /\ IsLeaf(ne) /\ IsLeaf(sw) /\ IsLeaf(se)
    THEN CenteredBits(nw.bits, ne.bits, sw.bits, se.bits)
    ELSE IF ~IsLeaf(nw) /\ ~IsLeaf(ne) /\ ~IsLeaf(sw) /\ ~IsLeaf(se)
    THEN Join(Se(nw), Sw(ne), Ne(sw), Nw(se))
    ELSE Panic

\* HashLifeCache::centered_horizontal
CenteredHorizontal(left, right) ==
    IF IsLeaf(left) /\ IsLeaf(right)
    THEN GetLeaf({ y * 8 + (x - 4) : << x, y >> \in
                     { c \in (4 .. 7) \X (0 .. 7) : (c[2] * 8 + c[1]) \in left.bits } }
                 \cup
                 { y * 8 + (x + 4) : << x, y >> \in
                     { c \in (0 .. 3) \X (0 .. 7) : (c[2] * 8 + c[1]) \in right.bits } })
    ELSE IF ~IsLeaf(left) /\ ~IsLeaf(right)
    THEN Join(Ne(left), Nw(right), Se(left), Sw(right))
    ELSE Panic

\* centered_vertical without its Branch arm
CenteredVerticalLeavesOnly(top, bottom) ==
    IF IsLeaf(top) /\ IsLeaf(bottom)
    THEN GetLeaf({ (y - 4) * 8 + x : << x, y >> \in
                     { c \in (0 .. 7) \X (4 .. 7) : (c[2] * 8 + c[1]) \in top.bits } }
                 \cup
                 { (y + 4) * 8 + x : << x, y >> \in
                     { c \in (0 .. 7) \X (0 .. 3) : (c[2] * 8 + c[1]) \in bottom.bits } })
    ELSE Panic

\* HashLifeCache::centered_vertical
CenteredVertical(top, bottom) ==
    IF IsLeaf(top) /\ IsLeaf(bottom)
    THEN GetLeaf({ (y - 4) * 8 + x : << x, y >> \in
                     { c \in (0 .. 7) \X (4 .. 7) : (c[2] * 8 + c[1]) \in top.bits } }
                 \cup
                 { (y + 4) * 8 + x : << x, y >> \in
                     { c \in (0 .. 7) \X (0 .. 3) : (c[2] * 8 + c[1]) \in bottom.bits } })
    ELSE IF ~IsLeaf(top) /\ ~IsLeaf(bottom)
    THEN Join(Sw(top), Se(top), Nw(bottom), Ne(bottom))
    ELSE Panic


\* the four centres that evolve_1 joins, of the nine results r
Centres(r) ==
    << CenteredSub(r[1], r[2], r[4], r[5]), CenteredSub(r[2], r[3], r[5], r[6]),
       CenteredSub(r[4], r[5], r[7], r[8]), CenteredSub(r[5], r[6], r[8], r[9]) >>

\* join of the quadrants q, unless a call that gave r or q has panicked
JoinUnlessPanicked(r, q) ==
    IF Computed(q) /\ ~Panicked(r) /\ ~Panicked(q) THEN Join(q[1], q[2], q[3], q[4])
    ELSE Panic

\* HashLifeCache::evolve_1: the centre of the node one generation later.  The
\* memo slot result_step_1 holds the value computed here, so a memoised call
\* returns what the computation returns.
RECURSIVE Evolve1(_)
Evolve1(node) ==
    IF node = Panic THEN Panic
    ELSE IF IsLeaf(node) THEN CalcLeaf(node.bits)
    ELSE IF node.level = 4 THEN CalcLevel4Grid(Nw(node), Ne(node), Sw(node), Se(node), 1)
    ELSE LET nw == Nw(node)
             ne == Ne(node)
             sw == Sw(node)
             se == Se(node)
             \* r00, r01, r02, r10, r11, r12, r20, r21, r22
             r  == << Evolve1(nw), Evolve1(CenteredHorizontal(nw, ne)), Evolve1(ne),
                      Evolve1(CenteredVertical(nw, sw)), Evolve1(CenteredSub(nw, ne, sw, se)),
                      Evolve1(CenteredVertical(ne, se)),
                      Evolve1(sw), Evolve1(CenteredHorizontal(sw, se)), Evolve1(se) >>
         IN  IF Computed(r) THEN JoinUnlessPanicked(r, Centres(r)) ELSE Panic

\* HashLifeCache::evolve with calc_branch: the centre of the node
\* 2^(level-2) generations later (memo slot result)
RECURSIVE Evolve(_)
Evolve(node) ==
    IF node = Panic THEN Panic
    ELSE IF IsLeaf(node) THEN CalcLeaf(node.bits)
    ELSE IF node.level = 4 THEN CalcLevel4Grid(Nw(node), Ne(node), Sw(node), Se(node), 4)
    ELSE LET nw == Nw(node)
             ne == Ne(node)
             sw == Sw(node)
             se == Se(node)
             \* r00, r01, r02, r10, r11, r12, r20, r21, r22
             r  == << Evolve(nw), Evolve(CenteredHorizontal(nw, ne)), Evolve(ne),
                      Evolve(CenteredVertical(nw, sw)), Evolve(CenteredSub(nw, ne, sw, se)),
                      Evolve(CenteredVertical(ne, se)),
                      Evolve(sw), Evolve(CenteredHorizontal(sw, se)), Evolve(se) >>
             q  == << Evolve(Join(r[1], r[2], r[4], r[5])), Evolve(Join(r[2], r[3], r[5], r[6])),
                      Evolve(Join(r[4], r[5], r[7], r[8])), Evolve(Join(r[5], r[6], r[8], r[9])) >>
         IN  IF Computed(r) /\ Computed(q) THEN JoinUnlessPanicked(r, q) ELSE Panic

\* ------------------------------------------------------------------ HashLife

\* 1 << k
Pow2(k) == 2 ^ k

\* HashLife::new (the cache is the set of all node values, see above)
HashNew == [root |-> EmptyNode(4), generation |-> 0, origin_x |-> 0, origin_y |-> 0]

HashPopulation(h) == h.root.population

\* HashLife::is_padded
IsPadded(h) ==
    IF IsLeaf(h.root) THEN FALSE
    ELSE LET get_sub(node, target_quad) ==
                 IF IsLeaf(node) THEN 0
                 ELSE IF target_quad = 0 THEN Nw(node).population
                 ELSE IF target_quad = 1 THEN Ne(node).population
                 ELSE IF target_quad = 2 THEN Sw(node).population
                 ELSE IF target_quad = 3 THEN Se(node).population
                 ELSE 0
             inner_pop == get_sub(Nw(h.root), 3) + get_sub(Ne(h.root), 2)
                          + get_sub(Sw(h.root), 1) + get_sub(Se(h.root), 0)
         IN  h.root.population = inner_pop

\* expand that keeps the old root in the north-west corner of the new one, as
\* the Leaf arm does, and leaves the origin alone
ExpandCorner(h) ==
    LET empty == EmptyNode(h.root.level)
    IN  [h EXCEPT !.root = Join(h.root, empty, empty, empty)]

\* HashLife::expand
Expand(h) ==
    IF IsLeaf(h.root)
    THEN LET empty == EmptyNode(h.root.level)
         IN  [h EXCEPT !.root = Join(h.root, empty, empty, empty)]
    ELSE LET level == h.root.level
             empty == EmptyNode(level - 1)
             shift == Pow2(level - 1)
         IN  [h EXCEPT !.root = Join(Join(empty, empty, empty, Nw(h.root)),
                                     Join(empty, empty, Ne(h.root), empty),
                                     Join(empty, Sw(h.root), empty, empty),
                                     Join(Se(h.root), empty, empty, empty)),
                       !.origin_x = h.origin_x - shift,
                       !.origin_y = h.origin_y - shift]

\* the safety cap of expand_to_fit
EXPAND_CAP == 20

Fits(h, x, y) ==
    LET size  == Pow2(h.root.level)
        rel_x == x - h.origin_x
        rel_y == y - h.origin_y
    IN  rel_x >= 0 /\ rel_y >= 0 /\ rel_x < size /\ rel_y < size

RECURSIVE ExpandToFitLoop(_, _, _, _)
ExpandToFitLoop(h, x, y, k) ==
    IF k = 0 \/ ~Computed(h) \/ Fits(h, x, y) THEN h
    ELSE ExpandToFitLoop(Expand(h), x, y, k - 1)

\* expand_to_fit that gives up after a single doubling
ExpandToFitOnce(h, x, y) == ExpandToFitLoop(h, x, y, 1)

\* HashLife::expand_to_fit
ExpandToFit(h, x, y) == ExpandToFitLoop(h, x, y, EXPAND_CAP)

\* v as u64: a negative i64 wraps to v + 2^64.  The u64 is written in two
\* parts, low + 2^64 * (IF wrap THEN 1 ELSE 0).
AsU64(v) == [wrap |-> v < 0, low |-> v]

\* px - off < bound in u64, for px >= off.  A wrapped px is at least 2^63 and
\* off + bound at most the size of the root, which is far below it, so the
\* difference of a wrapped px is never below bound.
U64SubLess(px, off, bound) == ~px.wrap /\ px.low - off < bound

\* (y, x) order of sort_unstable_by in apply_batch
PointLeq(a, b) == IF a[2] # b[2] THEN a[2] < b[2] ELSE a[1] <= b[1]

\* points.sort_unstable_by(...): the i-th point is the one with i - 1 points
\* before it (equal points are the same point, whatever their order)
SortPoints(points) ==
    LET before(k, j) == IF points[k] = points[j] THEN k < j
                        ELSE PointLeq(points[k], points[j])
    IN  Eager([i \in 1 .. Len(points) |->
                  points[CHOOSE j \in 1 .. Len(points) :
                             Cardinality({ k \in 1 .. Len(points) : before(k, j) }) = i - 1]])

\* HashLife::recursive_set_batch
RECURSIVE RecursiveSetBatch(_, _, _, _, _, _)
RecursiveSetBatch(node, size, offset_x, offset_y, sorted_points, alive) ==
    CASE Len(sorted_points) = 0 -> node
      [] Len(sorted_points) # 0 /\ IsLeaf(node) ->
            LET hit == { (p[2].low - offset_y) * 8 + (p[1].low - offset_x) :
                           p \in { sorted_points[i] : i \in
                                     { j \in 1 .. Len(sorted_points) :
                                         U64SubLess(sorted_points[j][1], offset_x, 8)
                                         /\ U64SubLess(sorted_points[j][2], offset_y, 8) } } }
            IN  GetLeaf(IF alive THEN node.bits \cup hit ELSE node.bits \cap Not(hit))
      [] OTHER ->
            LET half == size \div 2
                part(west, north) ==
                    SelectSeq(sorted_points,
                              LAMBDA p : (U64SubLess(p[1], offset_x, half) = west)
                                         /\ (U64SubLess(p[2], offset_y, half) = north))
                \* new_nw, new_ne, new_sw, new_se
                q == << RecursiveSetBatch(Nw(node), half, offset_x, offset_y,
                                          part(TRUE, TRUE), alive),
                        RecursiveSetBatch(Ne(node), half, offset_x + half, offset_y,
                                          part(FALSE, TRUE), alive),
                        RecursiveSetBatch(Sw(node), half, offset_x, offset_y + half,
                                          part(TRUE, FALSE), alive),
                        RecursiveSetBatch(Se(node), half, offset_x + half, offset_y + half,
                                          part(FALSE, FALSE), alive) >>
            IN  IF q = q THEN Join(q[1], q[2], q[3], q[4]) ELSE node

RECURSIVE ExpandToFitAll(_, _, _)
ExpandToFitAll(h, points, i) ==
    IF i > Len(points) \/ ~Computed(h) THEN h
    ELSE ExpandToFitAll(ExpandToFit(h, points[i][1], points[i][2]), points, i + 1)

\* HashLife::apply_batch
ApplyBatch(h, points, alive) ==
    IF Len(points) = 0 THEN h
    ELSE LET e          == ExpandToFitAll(h, points, 1)
             sorted     == SortPoints(points)
             rel_points == Eager([i \in 1 .. Len(sorted) |->
                                     << AsU64(sorted[i][1] - e.origin_x),
                                        AsU64(sorted[i][2] - e.origin_y) >>])
             size       == Pow2(e.root.level)
         IN  [e EXCEPT !.root = RecursiveSetBatch(e.root, size, 0, 0, rel_points, alive)]

HashSetCells(h, coords, alive) == ApplyBatch(h, coords, alive)

HashSetCell(h, pos, alive) == HashSetCells(h, << pos >>, alive)

\* HashLife::recursive_get
RECURSIVE RecursiveGet(_, _, _, _)
RecursiveGet(node, size, x, y) ==
    CASE node.population = 0 -> FALSE
      [] node.population # 0 /\ IsLeaf(node) -> (y * 8 + x) \in node.bits
      [] OTHER ->
            CASE x < size \div 2 /\ y < size \div 2 ->
                     RecursiveGet(Nw(node), size \div 2, x, y)
              [] x < size \div 2 /\ y >= size \div 2 ->
                     RecursiveGet(Sw(node), size \div 2, x, y - size \div 2)
              [] x >= size \div 2 /\ y < size \div 2 ->
                     RecursiveGet(Ne(node), size \div 2, x - size \div 2, y)
              [] OTHER ->
                     RecursiveGet(Se(node), size \div 2, x - size \div 2, y - size \div 2)

HashGetCell(h, pos) ==
    LET size  == Pow2(h.root.level)
        rel_x == pos[1] - h.origin_x
        rel_y == pos[2] - h.origin_y
    IN  IF rel_x < 0 \/ rel_y < 0 \/ rel_x >= size \/ rel_y >= size THEN FALSE
        ELSE RecursiveGet(h.root, size, rel_x, rel_y)

\* An i64 or u64 beyond the integers of the model checker, in three limbs:
\* a * 2^60 + b * 2^30 + c with b and c in 0 .. 2^30 - 1
Limb == 2 ^ 30

WideNorm(a, b, c) ==
    [a |-> a + (b + c \div Limb) \div Limb, b |-> (b + c \div Limb) % Limb, c |-> c % Limb]

Wide(v) == WideNorm(0, 0, v)

WideSub(x, y) == WideNorm(x.a - y.a, x.b - y.b, x.c - y.c)

WideLess(x, y) ==
    \/ x.a < y.a
    \/ x.a = y.a /\ x.b < y.b
    \/ x.a = y.a /\ x.b = y.b /\ x.c < y.c

\* 1 << k, for k < 90
WidePow2(k) ==
    CASE k < 30 -> WideNorm(0, 0, 2 ^ k)
      [] k >= 30 /\ k < 60 -> WideNorm(0, 2 ^ (k - 30), 0)
      [] OTHER -> WideNorm(2 ^ (k - 60), 0, 0)

\* i64::MIN <= w <= i64::MAX: 2^63 is 8 * 2^60
InI64(w) == w.a >= -8 /\ w.a <= 7

\* the fields of HashLife that its coordinate arithmetic reads
Frame(h) == [level |-> h.root.level, x |-> Wide(h.origin_x), y |-> Wide(h.origin_y)]

\* the arithmetic of get_cell and of the head of the loop of expand_to_fit
\* leaves the range of its integers: 1u64 << level, pos - origin in i64
RelOverflows(f, x, y) ==
    \/ f.level >= WordBits
    \/ ~InI64(WideSub(x, f.x))
    \/ ~InI64(WideSub(y, f.y))

\* rel_x >= 0 && rel_y >= 0 && rel_x < size as i64 && rel_y < size as i64,
\* where nothing has overflowed (size as i64 is negative for level 63)
FrameFits(f, x, y) ==
    /\ ~WideLess(WideSub(x, f.x), Wide(0))
    /\ ~WideLess(WideSub(y, f.y), Wide(0))
    /\ f.level < WordBits - 1
    /\ WideLess(WideSub(x, f.x), WidePow2(f.level))
    /\ WideLess(WideSub(y, f.y), WidePow2(f.level))

\* what expand does to these fields
FrameExpand(f) ==
    [level |-> f.level + 1, x |-> WideSub(f.x, WidePow2(f.level - 1)),
     y |-> WideSub(f.y, WidePow2(f.level - 1))]

\* expand leaves the range of its integers: 1i64 << (level - 1) and
\* origin -= shift in i64
ExpandOverflows(f) ==
    \/ f.level - 1 >= WordBits - 1
    \/ ~InI64(FrameExpand(f).x)
    \/ ~InI64(FrameExpand(f).y)

\* some pass of the loop of expand_to_fit leaves the range of its integers;
\* after the loop apply_batch computes x - origin_x and 1u64 << level again
RECURSIVE ExpandToFitOverflows(_, _, _, _)
ExpandToFitOverflows(f, x, y, k) ==
    CASE RelOverflows(f, x, y) -> TRUE
      [] ~RelOverflows(f, x, y) /\ (k = 0 \/ FrameFits(f, x, y)) -> FALSE
      [] OTHER -> IF ExpandOverflows(f) THEN TRUE
                  ELSE ExpandToFitOverflows(FrameExpand(f), x, y, k - 1)

\* set_cell(pos, _) leaves the range of its integers; pos is a pair of Wide
HashSetCellOverflows(h, pos) == ExpandToFitOverflows(Frame(h), pos[1], pos[2], EXPAND_CAP)

\* get_cell(pos) leaves the range of its integers
HashGetCellOverflows(h, pos) == RelOverflows(Frame(h), pos[1], pos[2])

HashClear(h) == [root |-> EmptyNode(4), generation |-> 0, origin_x |-> 0, origin_y |-> 0]

HashImport(h, alive_cells) == HashSetCells(HashClear(h), alive_cells, TRUE)

\* the pushes of one leaf: for row in 0..8 { for col in 0..8 { ... } }
LeafCells(bits, x, y) ==
    LET idx == Ascending(bits)
    IN  Eager([i \in 1 .. Len(idx) |-> << x + (idx[i] % 8), y + (idx[i] \div 8) >>])

\* HashLife::recursive_export
RECURSIVE RecursiveExport(_, _, _, _)
RecursiveExport(node, x, y, size) ==
    CASE node.population = 0 -> << >>
      [] node.population # 0 /\ IsLeaf(node) -> LeafCells(node.bits, x, y)
      [] OTHER ->
            (RecursiveExport(Nw(node), x, y, size \div 2)
             \o RecursiveExport(Ne(node), x + size \div 2, y, size \div 2))
            \o (RecursiveExport(Sw(node), x, y + size \div 2, size \div 2)
                \o RecursiveExport(Se(node), x + size \div 2, y + size \div 2, size \div 2))

HashExport(h) == RecursiveExport(h.root, h.origin_x, h.origin_y, Pow2(h.root.level))

\* the bound of the padding loop of step
PAD_CAP == 60

\* PadLoop without `|| !self.is_padded()`: it expands a root that is too small
\* and no other
RECURSIVE PadLoopTooSmallOnly(_, _)
PadLoopTooSmallOnly(h, k) ==
    IF k = 0 \/ ~Computed(h) THEN h
    ELSE IF h.root.level < 5 THEN PadLoopTooSmallOnly(Expand(h), k - 1)
    ELSE h

\* step 1 of the loop of step: for _ in 0..60 { expand or break }
RECURSIVE PadLoop(_, _)
PadLoop(h, k) ==
    IF k = 0 \/ ~Computed(h) THEN h
    ELSE IF h.root.level < 5 \/ ~IsPadded(h) THEN PadLoop(Expand(h), k - 1)
    ELSE h

\* HashShift with the level of the root that was evolved in the shift, in the
\* place of the level of the new root
HashShiftOldLevel(p, next_node, steps_taken, r) ==
    [engine |-> [root |-> next_node, generation |-> p.generation,
                 origin_x |-> p.origin_x + Pow2(p.root.level - 1),
                 origin_y |-> p.origin_y + Pow2(p.root.level - 1)],
     steps |-> r.steps - steps_taken, taken |-> r.taken + steps_taken,
     jumps |-> r.jumps + 1,
     padded |-> r.padded /\ p.root.level >= 5 /\ IsPadded(p)]

\* step 3 of the loop: self.root = next_node and the origin moves by a quarter
\* of the padded root.  p is the padded engine; steps is the remaining steps,
\* r.taken the sum of steps_taken so far, r.jumps the iterations so far and
\* r.padded whether every evolve and evolve_1 so far was given a root of level
\* 5 or more for which is_padded holds
HashShift(p, next_node, steps_taken, r) ==
    [engine |-> [root |-> next_node, generation |-> p.generation,
                 origin_x |-> p.origin_x + Pow2(next_node.level - 1),
                 origin_y |-> p.origin_y + Pow2(next_node.level - 1)],
     steps |-> r.steps - steps_taken, taken |-> r.taken + steps_taken,
     jumps |-> r.jumps + 1,
     padded |-> r.padded /\ p.root.level >= 5 /\ IsPadded(p)]

\* HashAdvance that takes the warp whatever the steps left
HashAdvanceAlwaysWarp(p, r) ==
    HashShift(p, Evolve(p.root), Pow2(p.root.level - 2), r)

\* HashAdvance that expands the root it has evolved
HashAdvanceThenExpand(p, r) ==
    LET max_jump == Pow2(p.root.level - 2)
        a == IF r.steps >= max_jump
             THEN HashShift(p, Evolve(p.root), max_jump, r)
             ELSE HashShift(p, Evolve1(p.root), 1, r)
    IN  [a EXCEPT !.engine = Expand(a.engine)]

\* step 2 of the loop: the warp of 2^(level - 2) generations when the steps
\* left allow it, one generation otherwise
HashAdvance(p, r) ==
    LET max_jump == Pow2(p.root.level - 2)
    IN  IF r.steps >= max_jump
        THEN HashShift(p, Evolve(p.root), max_jump, r)
        ELSE HashShift(p, Evolve1(p.root), 1, r)

\* while steps > 0 { pad; advance; shift }
RECURSIVE HashStepLoop(_)
HashStepLoop(r) ==
    IF r.steps = 0 THEN r
    ELSE HashStepLoop(HashAdvance(PadLoop(r.engine, PAD_CAP), r))

\* HashStepEnd with the remaining steps, which the loop has counted down, in
\* the place of total_steps
HashStepEndRemaining(r, generation, steps) ==
    [engine |-> [r.engine EXCEPT !.generation = (generation - steps) + r.steps],
     ret |-> r.steps, taken |-> r.taken, jumps |-> r.jumps, padded |-> r.padded]

\* the end of step: self.generation += total_steps, and total_steps is returned
HashStepEnd(r, generation, steps) ==
    [engine |-> [r.engine EXCEPT !.generation = generation], ret |-> steps,
     taken |-> r.taken, jumps |-> r.jumps, padded |-> r.padded]

\* HashLife::step: the engine afterwards, the value returned, the sum of the
\* advances of the iterations and their number
HashStep(h, steps) ==
    IF steps = 0 THEN [engine |-> h, ret |-> 0, taken |-> 0, jumps |-> 0, padded |-> TRUE]
    ELSE HashStepEnd(HashStepLoop([engine |-> h, steps |-> steps, taken |-> 0,
                                   jumps |-> 0, padded |-> TRUE]),
                     h.generation + steps, steps)


\* ------------------------------------------------ HashLifeCache, Arc by Arc
\* The cache with the identity of its nodes: nodes[i] is the Node behind the
\* i-th Arc that was created, so Arc::ptr_eq is equality of indices.  map
\* holds the indices that are values of the FxHashMap; the key of i is
\* nodes[i].data (get_node and new insert a node under its own data).

LeafData(bits) == [leaf |-> TRUE, bits |-> bits]

BranchData(nw, ne, sw, se, level) ==
    [leaf |-> FALSE, nw |-> nw, ne |-> ne, sw |-> sw, se |-> se, level |-> level]

\* impl PartialEq for NodeData
DataEq(a, b) ==
    CASE a.leaf /\ b.leaf -> a.bits = b.bits
      [] ~a.leaf /\ ~b.leaf ->
            a.level = b.level /\ a.nw = b.nw /\ a.ne = b.ne /\ a.sw = b.sw /\ a.se = b.se
      [] OTHER -> FALSE

NewNode(data, population) ==
    [data |-> data, population |-> population, result |-> None, result_step_1 |-> None]

\* HashLifeCache::new
CacheNew == [nodes |-> << NewNode(LeafData({}), 0) >>, map |-> { 1 }, empty_nodes |-> << 1 >>]

\* Node::level
CacheLevel(c, i) == IF c.nodes[i].data.leaf THEN LEAF_LEVEL ELSE c.nodes[i].data.level

\* get_node that never looks the data up
CacheGetNodeFresh(c, data) ==
    [cache |-> [c EXCEPT !.nodes = Append(@, NewNode(data, 0)),
                         !.map = @ \cup { Len(c.nodes) + 1 }],
     node |-> Len(c.nodes) + 1]

\* HashLifeCache::get_node
CacheGetNode(c, data) ==
    LET found      == { i \in c.map : DataEq(c.nodes[i].data, data) }
        population == IF data.leaf THEN Cardinality(data.bits)
                      ELSE c.nodes[data.nw].population + c.nodes[data.ne].population
                           + c.nodes[data.sw].population + c.nodes[data.se].population
        node       == Len(c.nodes) + 1
    IN  IF found # {} THEN [cache |-> c, node |-> CHOOSE i \in found : TRUE]
        ELSE [cache |-> [c EXCEPT !.nodes = Append(@, NewNode(data, population)),
                                  !.map = @ \cup { node }],
              node |-> node]

\* HashLifeCache::join
CacheJoin(c, nw, ne, sw, se) ==
    CacheGetNode(c, BranchData(nw, ne, sw, se, CacheLevel(c, nw) + 1))

\* HashLifeCache::empty_node
RECURSIVE CacheEmptyNode(_, _)
CacheEmptyNode(c, level) ==
    CASE level <= 3 -> [cache |-> c, node |-> c.empty_nodes[1]]
      [] level > 3 /\ level - 3 < Len(c.empty_nodes) ->
            [cache |-> c, node |-> c.empty_nodes[level - 3 + 1]]
      [] OTHER ->
            LET child == CacheEmptyNode(c, level - 1)
                j     == CacheJoin(child.cache, child.node, child.node, child.node,
                                   child.node)
            IN  [cache |-> [j.cache EXCEPT !.empty_nodes = Append(@, j.node)],
                 node |-> j.node]

\* the cells of the node behind Arc i, as the tree of the engine model
RECURSIVE CacheStruct(_, _)
CacheStruct(c, i) ==
    LET d == c.nodes[i].data
    IN  IF d.leaf THEN GetLeaf(d.bits)
        ELSE Join(CacheStruct(c, d.nw), CacheStruct(c, d.ne),
                  CacheStruct(c, d.sw), CacheStruct(c, d.se))

\* the node of the cache for the tree v, built as the cache builds every node:
\* leaves by get_node, empty squares by empty_node, branches by join of the
\* nodes of their quadrants.  q holds the nodes of the quadrants done so far.
RECURSIVE CacheIntern(_, _)
CacheInternNext(r, v) ==
    LET n == CacheIntern(r.cache, v) IN [cache |-> n.cache, q |-> Append(r.q, n.node)]

CacheInternJoin(r) == CacheJoin(r.cache, r.q[1], r.q[2], r.q[3], r.q[4])

CacheIntern(c, v) ==
    CASE IsLeaf(v) -> CacheGetNode(c, LeafData(v.bits))
      [] ~IsLeaf(v) /\ v.population = 0 -> CacheEmptyNode(c, v.level)
      [] OTHER ->
            CacheInternJoin(
                CacheInternNext(
                    CacheInternNext(
                        CacheInternNext(
                            CacheInternNext([cache |-> c, q |-> << >>], Nw(v)),
                            Ne(v)),
                        Sw(v)),
                    Se(v)))

\* node.result.set(result) and result_step_1.set(result) of evolve, evolve_1
CacheMemo(r, i, warp) ==
    [cache |-> IF warp THEN [r.cache EXCEPT !.nodes[i].result = Some(r.node)]
               ELSE [r.cache EXCEPT !.nodes[i].result_step_1 = Some(r.node)],
     node |-> r.node]

\* HashLifeCache::evolve: the memoised result, or the result computed and
\* canonicalised.  Of the nodes that the computation creates on its way only
\* the returned tree is kept here; they are further calls of get_node and join.
CacheEvolve(c, i) ==
    IF c.nodes[i].result # None THEN [cache |-> c, node |-> c.nodes[i].result[1]]
    ELSE CacheMemo(CacheIntern(c, Evolve(CacheStruct(c, i))), i, TRUE)

\* HashLifeCache::evolve_1
CacheEvolve1(c, i) ==
    IF c.nodes[i].result_step_1 # None
    THEN [cache |-> c, node |-> c.nodes[i].result_step_1[1]]
    ELSE CacheMemo(CacheIntern(c, Evolve1(CacheStruct(c, i))), i, FALSE)

\* ------------------------------------------------------------- the engines
\* The three engines of create_engine, each driven through the operations of
\* the LifeEngine trait with the same arguments.

VARIABLES sparse, arena, hash, ret, hist

\* the Universe resource, the tasks of the compute pool, the RwLock around
\* the engine and the last call of the host
VARIABLES universe, pool, lock, host

\* a HashLifeCache with the identity of its nodes, and the last call on it
VARIABLES cache, got

\* the boxes of box_clone and what their exports were
VARIABLES clones, kept

\* the last buffer that draw_to_buffer filled, with the call that filled it
VARIABLES canvas

EngineVars == << sparse, arena, hash, ret, hist >>

UniverseVars == << universe, pool, lock, host >>

CacheVars == << cache, got >>

CloneVars == << clones, kept >>

DrawVars == << canvas >>

vars == << EngineVars, UniverseVars, CacheVars, CloneVars, DrawVars >>

\* bound: the number of operations of a behaviour
MaxOps == 2

\* bound: HashLife steps are explored for roots up to this level (the model
\* computes evolve without the memo table)
MaxStepLevel == 7

\* the first x that the cleared 16x16 root does not reach in EXPAND_CAP
\* doublings: they cover -(2^23 - 8) .. 2^23 + 7
FarX == Pow2(EXPAND_CAP + 3) + 8

Blinker == << << -1, 0 >>, << 0, 0 >>, << 1, 0 >> >>

BlinkerTurned == << << 0, -1 >>, << 0, 0 >>, << 0, 1 >> >>

Block == << << 0, 0 >>, << 1, 0 >>, << 0, 1 >>, << 1, 1 >> >>

\* a 2x2 block across the corner of four 64x64 blocks and of the first root
BlockStraddle == << << -1, -1 >>, << 0, -1 >>, << -1, 0 >>, << 0, 0 >> >>

Glider == << << 0, 0 >>, << 1, 0 >>, << 2, 0 >>, << 2, 1 >>, << 1, 2 >> >>

FarCell == << << FarX, 0 >> >>

FarPair == << << FarX, 0 >>, << FarX + 1, 0 >> >>

Hexadecagon ==
    << << -4, 0 >>, << -4, -1 >>, << -3, -2 >>, << -2, -3 >>, << -1, -4 >>, << 0, -4 >>,
       << 1, -3 >>, << 2, -2 >>, << 3, -1 >>, << 3, 0 >>, << 2, 1 >>, << 1, 2 >>,
       << 0, 3 >>, << -1, 3 >>, << -2, 2 >>, << -3, 1 >> >>

\* three cells on the east column of block (-1, 0), rows 1 to 3, and a cell
\* of block (0, 0) away from them: rows 1 to 3 of block (0, 0) are zero
EastColumn == << << -1, 1 >>, << -1, 2 >>, << -1, 3 >>, << 0, 6 >> >>

\* the inputs of the operations
Patterns == { Blinker, Block, BlockStraddle, Glider, FarCell, EastColumn }

Batches == { Hexadecagon, FarPair }

Cells == { << 0, 0 >>, << FarX, 0 >> }

StepCounts == { 0, 1, 2, 4, 8 }

Range(q) == { q[i] : i \in 1 .. Len(q) }

NoRet == [sparse |-> 0, arena |-> 0, hash |-> 0, taken |-> 0, jumps |-> 0, padded |-> TRUE]

\* ret holds what the last step returned on each engine, with the sum of the
\* advances of HashLife's iterations, their number and whether each of them
\* evolved a padded root.  hist records the
\* operations: op and arg are the last operation and its arguments, seed the
\* cells of the last import, gens the generations stepped since then, calls
\* the step calls since then, pure whether the behaviour so far is one import
\* into the new engines followed by steps only, before the generation
\* counters before the last operation, nops the operations so far
\* no box yet: heap holds the nodes behind the Arcs of HashLife, store[i] the
\* engine behind the i-th Box allocated, a and b the boxes held (0: none)
ClonesNew == [heap |-> << >>, store |-> << >>, a |-> 0, b |-> 0]

\* kept.cells[h] is export() of box h, as a set, after the last call on h;
\* for b before its first call, export() of a when b was cloned
KeptNew == [op |-> "none", by |-> "none", cells |-> [a |-> {}, b |-> {}], nops |-> 0]

\* impl Default for Universe
UniverseDefault ==
    [engine |-> [kind |-> "arena", state |-> ArenaNew], step_task |-> None,
     steps_per_frame |-> 1]

\* no call of the host yet
HostNew ==
    [op |-> "new", kind |-> "new", mode |-> "none", mid |-> FALSE, polled |-> "none",
     spawned |-> FALSE, before |-> {}, after |-> [kind |-> "arena", cells |-> {}, generation |-> 0],
     seen |-> 0, calls |-> 0]

\* no buffer has been drawn
CanvasNew ==
    [kind |-> "none", rect |-> [min |-> << 0, 0 >>, width |-> 0, height |-> 0],
     width |-> 0, height |-> 0, live |-> {}, path |-> "none", lit |-> {}]

Init ==
    /\ universe = UniverseDefault
    /\ pool = << >>
    /\ lock = 0
    /\ host = HostNew
    /\ cache = CacheNew
    /\ got = [op |-> "new", node |-> 1, fresh |-> TRUE]
    /\ clones = ClonesNew
    /\ kept = KeptNew
    /\ canvas = CanvasNew
    /\ sparse = SparseNew
    /\ arena = ArenaNew
    /\ hash = HashNew
    /\ ret = NoRet
    /\ hist = [op |-> "new", arg |-> << >>, alive |-> FALSE, seed |-> << >>, gens |-> 0,
               calls |-> 0, pure |-> FALSE, before |-> << 0, 0, 0 >>, nops |-> 0]

Before == << sparse.generation, arena.generation, hash.generation >>

SetCell(pos, alive) ==
    /\ hist.nops < MaxOps
    /\ UNCHANGED << UniverseVars, CacheVars, CloneVars, DrawVars >>
    /\ sparse' = SparseSetCell(sparse, pos, alive)
    /\ arena' = ArenaSetCell(arena, pos, alive)
    /\ hash' = HashSetCell(hash, pos, alive)
    /\ ret' = NoRet
    /\ hist' = [hist EXCEPT !.op = "set_cell", !.arg = << pos >>, !.alive = alive,
                            !.pure = FALSE, !.before = Before, !.nops = @ + 1]

SetCells(coords, alive) ==
    /\ hist.nops < MaxOps
    /\ UNCHANGED << UniverseVars, CacheVars, CloneVars, DrawVars >>
    /\ sparse' = SparseSetCells(sparse, coords, alive)
    /\ arena' = ArenaSetCells(arena, coords, alive)
    /\ hash' = HashSetCells(hash, coords, alive)
    /\ ret' = NoRet
    /\ hist' = [hist EXCEPT !.op = "set_cells", !.arg = coords, !.alive = alive,
                            !.pure = FALSE, !.before = Before, !.nops = @ + 1]

Import(alive_cells) ==
    /\ hist.nops < MaxOps
    /\ UNCHANGED << UniverseVars, CacheVars, CloneVars, DrawVars >>
    /\ sparse' = SparseImport(sparse, alive_cells)
    /\ arena' = ArenaImport(arena, alive_cells)
    /\ hash' = HashImport(hash, alive_cells)
    /\ ret' = NoRet
    /\ hist' = [hist EXCEPT !.op = "import", !.arg = alive_cells, !.alive = TRUE,
                            !.seed = alive_cells, !.gens = 0, !.calls = 0,
                            !.pure = (hist.op = "new"),
                            !.before = Before, !.nops = @ + 1]

Clear ==
    /\ hist.nops < MaxOps
    /\ UNCHANGED << UniverseVars, CacheVars, CloneVars, DrawVars >>
    /\ sparse' = SparseClear(sparse)
    /\ arena' = ArenaClear(arena)
    /\ hash' = HashClear(hash)
    /\ ret' = NoRet
    /\ hist' = [hist EXCEPT !.op = "clear", !.arg = << >>, !.alive = FALSE,
                            !.pure = FALSE, !.before = Before, !.nops = @ + 1]

\* the engines and the values returned after step
Stepped(rs, ra, rh) ==
    /\ sparse' = rs.engine
    /\ arena' = ra.engine
    /\ hash' = rh.engine
    /\ ret' = [sparse |-> rs.ret, arena |-> ra.ret, hash |-> rh.ret, taken |-> rh.taken,
               jumps |-> rh.jumps, padded |-> rh.padded]

Step(steps) ==
    /\ hist.nops < MaxOps
    /\ UNCHANGED << UniverseVars, CacheVars, CloneVars, DrawVars >>
    /\ hash.root.level <= MaxStepLevel
    /\ Stepped(SparseStep(sparse, steps), ArenaStep(arena, steps), HashStep(hash, steps))
    /\ hist' = [hist EXCEPT !.op = "step", !.arg = << steps >>, !.alive = FALSE,
                            !.gens = @ + steps, !.calls = @ + 1, !.before = Before,
                            !.nops = @ + 1]

Next ==
    \/ \E pos \in Cells, alive \in BOOLEAN : SetCell(pos, alive)
    \/ \E coords \in Batches, alive \in BOOLEAN : SetCells(coords, alive)
    \/ \E alive_cells \in Patterns : Import(alive_cells)
    \/ Clear
    \/ \E steps \in StepCounts : Step(steps)

Spec == Init /\ [][Next]_vars

\* ------------------------------------------------------- Box<dyn LifeEngine>
\* The operations of the trait on the engine of kind k.

Engines == { "sparse", "arena", "hash" }

\* the engine of kind k in the current state
Engine(k) == CASE k = "sparse" -> sparse [] k = "arena" -> arena [] k = "hash" -> hash

EngineSetCell(k, e, pos, alive) ==
    CASE k = "sparse" -> SparseSetCell(e, pos, alive)
      [] k = "arena" -> ArenaSetCell(e, pos, alive)
      [] k = "hash" -> HashSetCell(e, pos, alive)

EngineSetCells(k, e, coords, alive) ==
    CASE k = "sparse" -> SparseSetCells(e, coords, alive)
      [] k = "arena" -> ArenaSetCells(e, coords, alive)
      [] k = "hash" -> HashSetCells(e, coords, alive)

EngineClear(k, e) ==
    CASE k = "sparse" -> SparseClear(e)
      [] k = "arena" -> ArenaClear(e)
      [] k = "hash" -> HashClear(e)

EngineImport(k, e, alive_cells) ==
    CASE k = "sparse" -> SparseImport(e, alive_cells)
      [] k = "arena" -> ArenaImport(e, alive_cells)
      [] k = "hash" -> HashImport(e, alive_cells)

EngineExport(k, e) ==
    CASE k = "sparse" -> SparseExport(e)
      [] k = "arena" -> ArenaExport(e)
      [] k = "hash" -> HashExport(e)

EnginePopulation(k, e) ==
    CASE k = "sparse" -> SparsePopulation(e)
      [] k = "arena" -> ArenaPopulation(e)
      [] k = "hash" -> HashPopulation(e)

EngineStep(k, e, steps) ==
    CASE k = "sparse" -> SparseStep(e, steps)
      [] k = "arena" -> ArenaStep(e, steps)
      [] k = "hash" -> HashStep(e, steps)

\* the live cells of e: export() as a set
LiveCells(k, e) == Range(EngineExport(k, e))

\* ---------------------------------------------------------------- Universe
\* The Bevy resource that owns the engine behind Arc<RwLock<..>> and the
\* background step task.  The host (the systems of the main schedule) makes
\* one call at a time; the tasks of the compute pool run beside it.  lock is
\* 0 when no guard of the RwLock is held and the number of the task that holds
\* the write guard otherwise: the guards of the host never outlive the call
\* that took them, and a call is one step of the model.

\* bound: the calls of the host in a behaviour
MaxHostCalls == 3

\* bound: the tasks spawned in a behaviour
MaxTasks == 2

\* the inputs of the host
HostCells == { << 0, 0 >> }

HostBatches == { Blinker, FarCell }

HostPatterns == { Block }

StepsPerFrame == { 1, 2 }

\* create_engine
CreateEngine(mode) ==
    CASE mode = "arena" -> ArenaNew [] mode = "sparse" -> SparseNew [] mode = "hash" -> HashNew

\* a write() that does not wait for the guard
RwWriteAnyTime(l) == TRUE

\* RwLock::write returns once no guard is held
RwWrite(l) == l = 0

\* a read() that does not wait for the write guard
RwReadAnyTime(l) == TRUE

\* RwLock::read returns once no write guard is held
RwRead(l) == l = 0

\* some task is inside engine.step: it has taken the write guard and not yet
\* dropped it
MidStep == \E i \in 1 .. Len(pool) : pool[i].pc = "stepping"

\* the tasks that were spawned and have not completed
InFlight == { i \in 1 .. Len(pool) : pool[i].pc # "finished" }

\* steps 1 to 3 of switch_engine, on the boxed engine b
SwitchEngine(b, mode) ==
    [kind |-> mode,
     state |-> EngineImport(mode, CreateEngine(mode), EngineExport(b.kind, b.state))]

\* a call of the host that changes the engine under the write guard
HostWrite(op, mode, engine) ==
    /\ host.calls < MaxHostCalls
    /\ RwWrite(lock)
    /\ universe' = [universe EXCEPT !.engine = engine]
    /\ host' = [host EXCEPT !.op = op, !.kind = "write", !.mode = mode, !.mid = MidStep,
                            !.before = LiveCells(universe.engine.kind, universe.engine.state),
                            !.after = [kind |-> engine.kind,
                                       cells |-> LiveCells(engine.kind, engine.state),
                                       generation |-> engine.state.generation],
                            !.calls = @ + 1]
    /\ UNCHANGED << pool, lock, EngineVars, CacheVars, CloneVars, DrawVars >>

\* Universe::set_cell
UniverseSetCell(pos, alive) ==
    HostWrite("set_cell", "none",
              [universe.engine EXCEPT
                  !.state = EngineSetCell(universe.engine.kind, @, pos, alive)])

\* Universe::add_cells
UniverseAddCells(cells) ==
    HostWrite("add_cells", "none",
              [universe.engine EXCEPT
                  !.state = EngineSetCells(universe.engine.kind, @, cells, TRUE)])

\* Universe::clear
UniverseClear ==
    HostWrite("clear", "none",
              [universe.engine EXCEPT !.state = EngineClear(universe.engine.kind, @)])

\* Universe::import
UniverseImport(cells) ==
    HostWrite("import", "none",
              [universe.engine EXCEPT !.state = EngineImport(universe.engine.kind, @, cells)])

\* Universe::switch_engine
UniverseSwitchEngine(mode) ==
    HostWrite("switch_engine", mode, SwitchEngine(universe.engine, mode))

\* a call of the host that reads the engine under a read guard
HostRead(op, seen) ==
    /\ host.calls < MaxHostCalls
    /\ RwRead(lock)
    /\ host' = [host EXCEPT !.op = op, !.kind = "read", !.mid = MidStep, !.seen = seen,
                            !.calls = @ + 1]
    /\ UNCHANGED << universe, pool, lock, EngineVars, CacheVars, CloneVars, DrawVars >>

\* Universe::draw_to_buffer: the cells that the engine rasterises
UniverseDrawToBuffer ==
    HostRead("draw_to_buffer", LiveCells(universe.engine.kind, universe.engine.state))

\* Universe::population
UniversePopulation ==
    HostRead("population", EnginePopulation(universe.engine.kind, universe.engine.state))

\* Universe::engine_name
UniverseEngineName == HostRead("engine_name", universe.engine.kind)

\* pub steps_per_frame ("Config: How many steps to take per frame"): the host
\* assigns the field; the systems of the repository leave it at its default 1
SetStepsPerFrame(n) ==
    /\ host.calls < MaxHostCalls
    /\ n # universe.steps_per_frame
    /\ universe' = [universe EXCEPT !.steps_per_frame = n]
    /\ host' = [host EXCEPT !.op = "steps_per_frame", !.kind = "config", !.mid = MidStep,
                            !.calls = @ + 1]
    /\ UNCHANGED << pool, lock, EngineVars, CacheVars, CloneVars, DrawVars >>

\* a poll that takes every task for completed
PollAlwaysReady(t) == TRUE

\* a poll that takes every task for pending
PollNeverReady(t) == FALSE

\* poll_task_once: Some(()) when the task has completed
PollTaskOnce(t) == t.pc = "finished"

\* the system step_universe, once per frame: poll the task that is held; if
\* it is pending put it back and return; else (none held, or the held one
\* completed and the stats were updated from engine_name()) spawn a task
StepUniverse ==
    /\ host.calls < MaxHostCalls
    /\ LET held    == universe.step_task
           ready   == held # None /\ PollTaskOnce(pool[held[1]])
           pending == held # None /\ ~ready
       IN  IF pending
           THEN /\ universe' = [universe EXCEPT !.step_task = held]
                /\ pool' = pool
                /\ host' = [host EXCEPT !.op = "step_universe", !.kind = "frame",
                                        !.mid = MidStep, !.polled = "pending",
                                        !.spawned = FALSE, !.calls = @ + 1]
           ELSE /\ Len(pool) < MaxTasks
                /\ ready => RwRead(lock)
                /\ pool' = Append(pool, [pc |-> "spawned", steps |-> universe.steps_per_frame,
                                         left |-> universe.steps_per_frame])
                /\ universe' = [universe EXCEPT !.step_task = Some(Len(pool) + 1)]
                /\ host' = [host EXCEPT !.op = "step_universe", !.kind = "frame",
                                        !.mid = MidStep,
                                        !.polled = IF ready THEN "ready" ELSE "none",
                                        !.spawned = TRUE, !.calls = @ + 1]
    /\ UNCHANGED << lock, EngineVars, CacheVars, CloneVars, DrawVars >>

\* one pass of the loop of step on the engine of kind k: a generation of
\* SparseLife and ArenaLife, a padded evolve or evolve_1 of HashLife
EngineStepPart(k, e, left) ==
    CASE k = "sparse" -> [engine |-> SparseStepOnce(e), left |-> left - 1]
      [] k = "arena" -> [engine |-> ArenaStepOnce(e), left |-> left - 1]
      [] k = "hash" ->
            LET r == HashAdvance(PadLoop(e, PAD_CAP),
                                 [engine |-> e, steps |-> left, taken |-> 0, jumps |-> 0,
                                  padded |-> TRUE])
            IN  [engine |-> r.engine, left |-> r.steps]

\* what step does after its loop: HashLife adds the steps to its generation
EngineStepDone(k, e, steps) ==
    IF k = "hash" THEN [e EXCEPT !.generation = @ + steps] ELSE e

\* the spawned task takes the write guard
TaskBegin(id) ==
    /\ pool[id].pc = "spawned"
    /\ RwWrite(lock)
    /\ lock' = id
    /\ pool' = [pool EXCEPT ![id].pc = "stepping"]
    /\ UNCHANGED << universe, host, EngineVars, CacheVars, CloneVars, DrawVars >>

\* a task that steps an engine of its own, not the one behind the lock
TaskStepDetached(id) ==
    /\ pool[id].pc = "stepping"
    /\ pool[id].left > 0
    /\ pool' = [pool EXCEPT ![id].left = @ - 1]
    /\ UNCHANGED << universe, lock, host, EngineVars, CacheVars, CloneVars, DrawVars >>

\* engine.step(steps), one pass of its loop
TaskStep(id) ==
    /\ pool[id].pc = "stepping"
    /\ pool[id].left > 0
    /\ universe.engine.kind = "hash" => universe.engine.state.root.level <= MaxStepLevel
    /\ LET part == EngineStepPart(universe.engine.kind, universe.engine.state, pool[id].left)
       IN  /\ universe' = [universe EXCEPT !.engine.state = part.engine]
           /\ pool' = [pool EXCEPT ![id].left = part.left]
    /\ UNCHANGED << lock, host, EngineVars, CacheVars, CloneVars, DrawVars >>

\* engine.step returns, the guard is dropped and the task completes
TaskEnd(id) ==
    /\ pool[id].pc = "stepping"
    /\ pool[id].left = 0
    /\ universe' = [universe EXCEPT
                       !.engine.state = EngineStepDone(universe.engine.kind, @, pool[id].steps)]
    /\ lock' = IF lock = id THEN 0 ELSE lock
    /\ pool' = [pool EXCEPT ![id].pc = "finished"]
    /\ UNCHANGED << host, EngineVars, CacheVars, CloneVars, DrawVars >>

UniverseNext ==
    \/ \E pos \in HostCells, alive \in BOOLEAN : UniverseSetCell(pos, alive)
    \/ \E cells \in HostBatches : UniverseAddCells(cells)
    \/ UniverseClear
    \/ \E cells \in HostPatterns : UniverseImport(cells)
    \/ \E mode \in Engines : UniverseSwitchEngine(mode)
    \/ UniverseDrawToBuffer
    \/ UniversePopulation
    \/ UniverseEngineName
    \/ \E n \in StepsPerFrame : SetStepsPerFrame(n)
    \/ StepUniverse
    \/ \E id \in 1 .. Len(pool) : TaskBegin(id)
    \/ \E id \in 1 .. Len(pool) : TaskStep(id)
    \/ \E id \in 1 .. Len(pool) : TaskEnd(id)

UniverseSpec == Init /\ [][UniverseNext]_vars

\* The stepper with its scheduling.  The frames of the host run step_universe
\* and the key handler (switch_engine, clear); import loads a pattern.  The
\* compute pool runs every task it was given: a spawned task is polled until
\* write() returns, which it does once the guard is free, and engine.step
\* runs to its end.  The schedule runs step_universe in every frame.
StepperNext ==
    \/ StepUniverse
    \/ \E id \in 1 .. Len(pool) : TaskBegin(id)
    \/ \E id \in 1 .. Len(pool) : TaskStep(id)
    \/ \E id \in 1 .. Len(pool) : TaskEnd(id)
    \/ \E mode \in Engines : UniverseSwitchEngine(mode)
    \/ \E cells \in HostPatterns : UniverseImport(cells)
    \/ UniverseClear
    \/ \E n \in StepsPerFrame : SetStepsPerFrame(n)

\* a pass of engine.step in task id, told by what it does to the pool: the
\* steps left to the task go down.  No other action lowers them, so the
\* steps of TaskPass that change the pool are the steps of TaskStep.
TaskPass(id) ==
    /\ pool[id].pc = "stepping"
    /\ pool[id].left > 0
    /\ universe.engine.kind = "hash" => universe.engine.state.root.level <= MaxStepLevel
    /\ pool' \in { [pool EXCEPT ![id].left = l] : l \in 0 .. pool[id].left - 1 }

StepperSpec ==
    /\ Init
    /\ [][StepperNext]_vars
    /\ WF_vars(StepUniverse)
    /\ WF_vars(\E id \in 1 .. Len(pool) : TaskBegin(id))
    /\ WF_pool(\E id \in 1 .. Len(pool) : TaskPass(id))
    /\ WF_vars(\E id \in 1 .. Len(pool) : TaskEnd(id))

\* ------------------------------------------------------ the cache at work
\* The calls that create or return nodes of one cache, in any order and
\* on nodes of the cache.  got is the last call: the node it returned and
\* whether it changed the cache.

\* bound: the nodes of the cache; a call that would create more is not made
MaxNodes == 3

\* bound: the level of the nodes that are joined or asked for
MaxCacheLevel == 4

\* the leaves asked for: the empty one and the block in the middle
LeafInputs == { {}, { 27, 28, 35, 36 } }

CacheCall(op, r) ==
    /\ Len(r.cache.nodes) <= MaxNodes
    /\ cache' = r.cache
    /\ got' = [op |-> op, node |-> r.node, fresh |-> r.cache # cache]
    /\ UNCHANGED << EngineVars, UniverseVars, CloneVars, DrawVars >>

\* get_node(NodeData::Leaf(bits))
GetNode(bits) ==
    CacheCall("get_node", CacheGetNode(cache, LeafData(bits)))

\* join of four nodes of one level
JoinNodes(nw, ne, sw, se) ==
    /\ CacheLevel(cache, nw) < MaxCacheLevel
    /\ CacheLevel(cache, ne) = CacheLevel(cache, nw)
    /\ CacheLevel(cache, sw) = CacheLevel(cache, nw)
    /\ CacheLevel(cache, se) = CacheLevel(cache, nw)
    /\ CacheCall("join", CacheJoin(cache, nw, ne, sw, se))

\* empty_node(level)
GetEmptyNode(level) ==
    CacheCall("empty_node", CacheEmptyNode(cache, level))

\* evolve(node)
EvolveNode(i) ==
    CacheCall("evolve", CacheEvolve(cache, i))

\* evolve_1(node)
Evolve1Node(i) ==
    CacheCall("evolve_1", CacheEvolve1(cache, i))

CacheNext ==
    \/ \E bits \in LeafInputs : GetNode(bits)
    \/ \E a, b \in 1 .. Len(cache.nodes) : JoinNodes(a, b, b, a)
    \/ \E level \in LEAF_LEVEL .. MaxCacheLevel : GetEmptyNode(level)
    \/ \E i \in 1 .. Len(cache.nodes) : EvolveNode(i)
    \/ \E i \in 1 .. Len(cache.nodes) : Evolve1Node(i)

CacheSpec == Init /\ [][CacheNext]_vars

\* ---------------------------------------------------------------- box_clone
\* Two boxes of one engine.  #[derive(Clone)] copies the maps, sets and
\* vectors of SparseLife and ArenaLife with their blocks.  Of HashLife it
\* copies the map and the vector of the cache and the Arc of the root: the
\* nodes behind the Arcs, with their two memo slots, are shared by the engine
\* and its clone.  The HashLife engine of a box is therefore kept as
\* [map, empty_nodes, root, generation, origin_x, origin_y] over the nodes of
\* heap.

\* bound: the calls on the boxes in a behaviour, box_clone not counted
MaxBoxOps == 2

\* the inputs of the calls on the boxes
BoxCell == << 1, 1 >>

BoxPattern == Blinker

BoxSteps == { 1, 8 }

\* the cache of the engine e over the nodes of heap
ArcCache(heap, e) == [nodes |-> heap, map |-> e.map, empty_nodes |-> e.empty_nodes]

\* the engine e as the tree of its cells
ArcView(heap, e) ==
    [root |-> CacheStruct([nodes |-> heap], e.root), generation |-> e.generation,
     origin_x |-> e.origin_x, origin_y |-> e.origin_y]

\* the engine whose cache and root are those of r, a result of the cache
ArcWith(r, generation, origin_x, origin_y) ==
    [heap |-> r.cache.nodes,
     engine |-> [map |-> r.cache.map, empty_nodes |-> r.cache.empty_nodes,
                 root |-> r.node, generation |-> generation,
                 origin_x |-> origin_x, origin_y |-> origin_y]]

\* self.root = the node of tree v.root: expand, recursive_set_batch and clear
\* build their nodes by get_node, join and empty_node on the engine's cache and
\* write into no node
ArcRoot(heap, e, v) ==
    ArcWith(CacheIntern(ArcCache(heap, e), v.root), v.generation, v.origin_x, v.origin_y)

\* HashLife::new
ArcNew == ArcWith(CacheEmptyNode(CacheNew, 4), 0, 0, 0)

ArcSetCell(heap, e, pos, alive) == ArcRoot(heap, e, HashSetCell(ArcView(heap, e), pos, alive))

ArcClear(heap, e) == ArcRoot(heap, e, HashClear(ArcView(heap, e)))

ArcImport(heap, e, alive_cells) ==
    ArcRoot(heap, e, HashImport(ArcView(heap, e), alive_cells))

ArcExport(heap, e) == HashExport(ArcView(heap, e))

\* self.root.population
ArcPopulation(heap, e) == heap[e.root].population

\* max_jump = 1 << (level - 2) of the padded engine x
ArcMaxJump(x) == Pow2(CacheLevel(ArcCache(x.heap, x.engine), x.engine.root) - 2)

\* step 4 of the loop of step: self.root = next_node and the shift of the
\* origin; next is what evolve or evolve_1 returned, steps the steps left
ArcShift(x, next, steps) ==
    [state |-> ArcWith(next, x.engine.generation,
                       x.engine.origin_x + Pow2(CacheLevel(next.cache, next.node) - 1),
                       x.engine.origin_y + Pow2(CacheLevel(next.cache, next.node) - 1)),
     steps |-> steps]

\* steps 2 and 3 of the loop of step on the padded engine x: evolve or
\* evolve_1 through the memo slots of the root
ArcAdvance(x, steps) ==
    IF steps >= ArcMaxJump(x)
    THEN ArcShift(x, CacheEvolve(ArcCache(x.heap, x.engine), x.engine.root),
                  steps - ArcMaxJump(x))
    ELSE ArcShift(x, CacheEvolve1(ArcCache(x.heap, x.engine), x.engine.root), steps - 1)

\* step 1 of the loop of step: the padding
ArcPad(x) == ArcRoot(x.heap, x.engine, PadLoop(ArcView(x.heap, x.engine), PAD_CAP))

\* while steps > 0 { pad; advance; shift }
RECURSIVE ArcStepLoop(_)
ArcStepLoop(r) ==
    IF r.steps = 0 THEN r.state ELSE ArcStepLoop(ArcAdvance(ArcPad(r.state), r.steps))

\* self.generation += total_steps
ArcStepEnd(x, generation) == [x EXCEPT !.engine.generation = generation]

\* HashLife::step
ArcStep(heap, e, steps) ==
    ArcStepEnd(ArcStepLoop([state |-> [heap |-> heap, engine |-> e], steps |-> steps]),
               e.generation + steps)

\* the box of the HashLife engine of x
ArcBox(x) == [heap |-> x.heap, box |-> [kind |-> "hash", state |-> x.engine]]

\* a call of the trait on the engine behind a box: the heap and the engine
\* afterwards
BoxCall(heap, box, op, arg) ==
    IF box.kind = "hash"
    THEN ArcBox(CASE op = "set_cell" -> ArcSetCell(heap, box.state, BoxCell, arg)
                  [] op = "step" -> ArcStep(heap, box.state, arg)
                  [] op = "clear" -> ArcClear(heap, box.state)
                  [] op = "import" -> ArcImport(heap, box.state, arg))
    ELSE [heap |-> heap,
          box  |-> [kind |-> box.kind,
                    state |-> CASE op = "set_cell" ->
                                     EngineSetCell(box.kind, box.state, BoxCell, arg)
                                [] op = "step" -> EngineStep(box.kind, box.state, arg).engine
                                [] op = "clear" -> EngineClear(box.kind, box.state)
                                [] op = "import" ->
                                     EngineImport(box.kind, box.state, arg)]]

\* export() of the engine behind a box, as a set
BoxExport(heap, box) ==
    IF box.kind = "hash" THEN Range(ArcExport(heap, box.state))
    ELSE LiveCells(box.kind, box.state)

\* population()
BoxPopulation(heap, box) ==
    IF box.kind = "hash" THEN ArcPopulation(heap, box.state)
    ELSE EnginePopulation(box.kind, box.state)

\* name(): one name for each kind
BoxName(box) == box.kind

\* a handle on the Box that is cloned, in the place of a new Box
BoxCloneShared(store, i) == [store |-> store, box |-> i]

\* box_clone: Box::new(self.clone())
BoxClone(store, i) == [store |-> Append(store, store[i]), box |-> Len(store) + 1]

\* a = create_engine(mode)
BoxNew(mode) ==
    /\ clones.a = 0
    /\ clones' = [heap  |-> IF mode = "hash" THEN ArcNew.heap ELSE << >>,
                  store |-> << [kind |-> mode,
                                state |-> IF mode = "hash" THEN ArcNew.engine
                                          ELSE CreateEngine(mode)] >>,
                  a |-> 1, b |-> 0]
    /\ kept' = [kept EXCEPT !.op = "new", !.by = "a"]
    /\ UNCHANGED << EngineVars, UniverseVars, CacheVars, DrawVars >>

\* b = a.box_clone()
BoxCloneCall ==
    /\ clones.a # 0
    /\ clones.b = 0
    /\ clones' = [clones EXCEPT !.store = BoxClone(clones.store, clones.a).store,
                                !.b = BoxClone(clones.store, clones.a).box]
    /\ kept' = [kept EXCEPT !.op = "box_clone", !.by = "a", !.cells.b = kept.cells.a]
    /\ UNCHANGED << EngineVars, UniverseVars, CacheVars, DrawVars >>

\* the boxes after a call on box h that left r
BoxDone(h, op, r) ==
    /\ clones' = [clones EXCEPT !.heap = r.heap, !.store[clones[h]] = r.box]
    /\ kept' = [kept EXCEPT !.op = op, !.by = h, !.nops = @ + 1,
                            !.cells[h] = BoxExport(r.heap, r.box)]

\* a call on box h
BoxDo(h, op, arg) ==
    /\ clones[h] # 0
    /\ kept.nops < MaxBoxOps
    /\ BoxDone(h, op, BoxCall(clones.heap, clones.store[clones[h]], op, arg))
    /\ UNCHANGED << EngineVars, UniverseVars, CacheVars, DrawVars >>

BoxSetCell(h, alive) == BoxDo(h, "set_cell", alive)

BoxStep(h, steps) == BoxDo(h, "step", steps)

BoxClear(h) == BoxDo(h, "clear", << >>)

BoxImport(h) == BoxDo(h, "import", BoxPattern)

CloneNext ==
    \/ \E mode \in Engines : BoxNew(mode)
    \/ BoxCloneCall
    \/ \E h \in { "a", "b" }, alive \in BOOLEAN : BoxSetCell(h, alive)
    \/ \E h \in { "a", "b" }, steps \in BoxSteps : BoxStep(h, steps)
    \/ \E h \in { "a", "b" } : BoxClear(h)
    \/ \E h \in { "a", "b" } : BoxImport(h)

CloneSpec == Init /\ [][CloneNext]_vars

\* ------------------------------------------------------------ draw_to_buffer
\* A buffer is the set of its non-zero pixels << column, row >>.  With an
\* integer scale and an integer rect.min every f64 of the sparse path and of
\* recursive_draw is a whole number, which round() returns as it is; the
\* dense path divides, and its floor() is taken on the exact quotient (the
\* centre of a pixel is at least 1 / (2 * scale) away from a cell border).

\* bound: the scales width / rect.width() of the buffers that are drawn
MaxScale == 3

Pixels(width, height) == (0 .. width - 1) \X (0 .. height - 1)

\* v.max(0).min(limit) as usize
ClampTo(v, limit) == IF v < 0 THEN 0 ELSE IF v > limit THEN limit ELSE v

\* fill_rect_safe of SparseLife and of ArenaLife: the pixels it sets to 255
FillRectSafe(width, height, x, y, size) ==
    LET effective_size == IF size < 1 THEN 1 ELSE size
        sx == ClampTo(x, width)
        sy == ClampTo(y, height)
        ex == ClampTo(x + effective_size, width)
        ey == ClampTo(y + effective_size, height)
    IN  IF sx >= ex \/ sy >= ey THEN {}
        ELSE (sx .. ex - 1) \X (sy .. ey - 1)

\* the culling of draw_sparse: the block at chunk_pos is skipped
BlockCulled(chunk_pos, rect, width, height, scale) ==
    LET screen_block_x == (chunk_pos[1] * BLOCK_SIZE - rect.min[1]) * scale
        screen_block_y == (chunk_pos[2] * BLOCK_SIZE - rect.min[2]) * scale
    IN  \/ screen_block_x > width
        \/ screen_block_x + BLOCK_SIZE * scale < 0
        \/ screen_block_y > height
        \/ screen_block_y + BLOCK_SIZE * scale < 0

\* the inner loops of draw_sparse over the rows of one block
DrawBlockRows(rows, chunk_pos, rect, width, height, scale) ==
    UNION { FillRectSafe(width, height,
                         (chunk_pos[1] * BLOCK_SIZE + b[1] - rect.min[1]) * scale,
                         (chunk_pos[2] * BLOCK_SIZE + b[2] - rect.min[2]) * scale,
                         scale) : b \in BlockBits(rows) }

\* SparseLife::draw_sparse: buffer.fill(0), then a square per live cell
SparseDrawSparse(s, rect, width, height, scale) ==
    UNION { DrawBlockRows(s.blocks[pos], pos, rect, width, height, scale) :
            pos \in { q \in DOMAIN s.blocks : ~BlockCulled(q, rect, width, height, scale) } }

\* a sample at the corner of the pixel that rounds: round(min + screen * inv_scale)
DenseSampleCorner(min, screen, scale) == min + ((2 * screen + scale) \div (2 * scale))

\* floor(min + (screen + 0.5) * inv_scale)
DenseSample(min, screen, scale) == min + ((2 * screen + 1) \div (2 * scale))

\* SparseLife::draw_dense with is_zoomed_in: every pixel of the
\* buffer.len() / width rows is written, 255 where the sampled bit is set
SparseDrawDense(s, rect, len, width, scale) ==
    { p \in Pixels(width, len \div width) :
        LET c == GetCoords(DenseSample(rect.min[1], p[1], scale),
                           DenseSample(rect.min[2], p[2], scale))
        IN  c.pos \in DOMAIN s.blocks /\ c.lx \in s.blocks[c.pos][c.ly] }

\* SparseLife::draw_to_buffer on a buffer that held the pixels of buffer
SparseDrawToBuffer(s, rect, buffer, width, height) ==
    LET scale == width \div rect.width
    IN  IF scale <= 0 THEN [lit |-> buffer, path |-> "none"]
        ELSE IF SparsePopulation(s) < (width * height) \div 10
        THEN [lit |-> SparseDrawSparse(s, rect, width, height, scale), path |-> "sparse"]
        ELSE [lit |-> SparseDrawDense(s, rect, width * height, width, scale),
              path |-> "dense"]

\* ArenaLife::draw_sparse: the blocks of lookup that are alive
ArenaDrawSparse(a, rect, width, height, scale) ==
    UNION { DrawBlockRows(a.arena[a.lookup[pos]].rows, pos, rect, width, height, scale) :
            pos \in { q \in DOMAIN a.lookup :
                        /\ a.arena[a.lookup[q]].alive
                        /\ ~BlockCulled(q, rect, width, height, scale) } }

\* ArenaLife::draw_dense with is_zoomed_in
ArenaDrawDense(a, rect, len, width, scale) ==
    { p \in Pixels(width, len \div width) :
        LET c == GetCoords(DenseSample(rect.min[1], p[1], scale),
                           DenseSample(rect.min[2], p[2], scale))
        IN  /\ c.pos \in DOMAIN a.lookup
            /\ a.arena[a.lookup[c.pos]].alive
            /\ c.lx \in a.arena[a.lookup[c.pos]].rows[c.ly] }

\* ArenaLife::draw_to_buffer: scale > 0.5 selects draw_sparse
ArenaDrawToBuffer(a, rect, buffer, width, height) ==
    LET scale == width \div rect.width
    IN  IF scale <= 0 THEN [lit |-> buffer, path |-> "none"]
        ELSE IF ArenaPopulation(a) < (width * height) \div 10 \/ 2 * scale > 1
        THEN [lit |-> ArenaDrawSparse(a, rect, width, height, scale), path |-> "sparse"]
        ELSE [lit |-> ArenaDrawDense(a, rect, width * height, width, scale),
              path |-> "dense"]

\* HashLife::fill_rect: x.round().max(0.0) as usize and
\* (x + size).round().min(width as f64) as usize, which is 0 below 0
HashFillRect(width, height, x, y, size) ==
    LET start_x == IF x < 0 THEN 0 ELSE x
        start_y == IF y < 0 THEN 0 ELSE y
        end_x   == ClampTo(x + size, width)
        end_y   == ClampTo(y + size, height)
    IN  IF start_x >= end_x \/ start_y >= end_y THEN {}
        ELSE (start_x .. end_x - 1) \X (start_y .. end_y - 1)

\* HashLife::recursive_draw: the pixels it sets to 255
RECURSIVE RecursiveDraw(_, _, _, _, _, _)
RecursiveDraw(node, x, y, size, width, height) ==
    IF node.population = 0 THEN {}
    ELSE IF x >= width \/ y >= height \/ x + size <= 0 \/ y + size <= 0 THEN {}
    ELSE IF size <= 1 THEN HashFillRect(width, height, x, y, size)
    ELSE IF IsLeaf(node)
    THEN LET cell_size == size \div 8
         IN  UNION { HashFillRect(width, height, x + (b % 8) * cell_size,
                                  y + (b \div 8) * cell_size, cell_size) :
                     b \in node.bits }
    ELSE LET half == size \div 2
         IN  RecursiveDraw(Nw(node), x, y, half, width, height)
             \cup RecursiveDraw(Ne(node), x + half, y, half, width, height)
             \cup RecursiveDraw(Sw(node), x, y + half, half, width, height)
             \cup RecursiveDraw(Se(node), x + half, y + half, half, width, height)

\* HashLife::draw_to_buffer
HashDrawToBuffer(h, rect, buffer, width, height) ==
    IF rect.width <= 0 THEN [lit |-> {}, path |-> "none"]
    ELSE LET scale == width \div rect.width
         IN  [lit |-> RecursiveDraw(h.root, (h.origin_x - rect.min[1]) * scale,
                                    (h.origin_y - rect.min[2]) * scale,
                                    Pow2(h.root.level) * scale, width, height),
              path |-> "tree"]

EngineDrawToBuffer(k, e, rect, buffer, width, height) ==
    CASE k = "sparse" -> SparseDrawToBuffer(e, rect, buffer, width, height)
      [] k = "arena" -> ArenaDrawToBuffer(e, rect, buffer, width, height)
      [] k = "hash" -> HashDrawToBuffer(e, rect, buffer, width, height)

\* the world rects of the viewport: the 10x10 of the origin, a 4x3 around
\* the corner of four blocks and a 3x3 on the north edge of the hexadecagon
DrawRects ==
    { [min |-> << 0, 0 >>, width |-> 10, height |-> 10],
      [min |-> << -2, -2 >>, width |-> 4, height |-> 3],
      [min |-> << -1, -4 >>, width |-> 3, height |-> 3] }

OneCell == << << 5, 5 >> >>

DrawPatterns == { OneCell, Blinker, Block, BlockStraddle, Glider, Hexadecagon }

\* draw_to_buffer of the engine of kind k after import(cells) and step(steps),
\* into a buffer of scale times the rect that was all zero or all 255.  The
\* engine is a new one and the call overwrites the buffer, so that a second
\* call of a behaviour would draw what a first call draws: there is one
DrawToBuffer(k, cells, steps, rect, scale, dirty) ==
    canvas = CanvasNew /\
    LET e      == EngineStep(k, EngineImport(k, CreateEngine(k), cells), steps).engine
        width  == scale * rect.width
        height == scale * rect.height
        buffer == IF dirty THEN Pixels(width, height) ELSE {}
        drawn  == EngineDrawToBuffer(k, e, rect, buffer, width, height)
    IN  /\ canvas' = [kind |-> k, rect |-> rect, width |-> width, height |-> height,
                      live |-> LiveCells(k, e), path |-> drawn.path, lit |-> drawn.lit]
        /\ UNCHANGED << EngineVars, UniverseVars, CacheVars, CloneVars >>

DrawNext ==
    \E k \in Engines, cells \in DrawPatterns, steps \in { 0, 1 }, rect \in DrawRects,
       scale \in 1 .. MaxScale, dirty \in BOOLEAN :
        DrawToBuffer(k, cells, steps, rect, scale, dirty)

DrawSpec == Init /\ [][DrawNext]_vars

\* ------------------------------------------------------------------- claims

Translated(cells, dx, dy) == { << c[1] + dx, c[2] + dy >> : c \in cells }

\* the behaviour so far is import(C) into the new engines and then steps
Seeded(C) == hist.pure /\ hist.seed = C

\* C1: for every pattern C and n >= 0, import(C) into the empty engine
\* followed by step(n) yields the same export(), as a set, on SparseLife,
\* ArenaLife and HashLife.
CrossEngineEquivalence ==
    (hist.pure /\ hist.calls = 1) =>
        \A k1 \in Engines, k2 \in Engines :
            LiveCells(k1, Engine(k1)) = LiveCells(k2, Engine(k2))

\* C2: on each engine, one generation after import of the blinker
\* {(-1,0),(0,0),(1,0)} export() is {(0,-1),(0,0),(0,1)}, two generations
\* after it export() is the seed again, and population() is 3 after every
\* generation.
BlinkerScenario ==
    Seeded(Blinker) =>
        \A k \in Engines :
            /\ hist.gens = 1 => LiveCells(k, Engine(k)) = Range(BlinkerTurned)
            /\ hist.gens = 2 => LiveCells(k, Engine(k)) = Range(Blinker)
            /\ EnginePopulation(k, Engine(k)) = 3

\* C3: on each engine, 4 * k generations after import of the glider
\* {(0,0),(1,0),(2,0),(2,1),(1,2)}, for k in {1, 10, 75} and whether reached
\* by one step call or by several, export() is the seed translated by (k, -k).
GliderScenario ==
    \A k \in { 1, 10, 75 } :
        (Seeded(Glider) /\ hist.gens = 4 * k) =>
            \A e \in Engines : LiveCells(e, Engine(e)) = Translated(Range(Glider), k, -k)

\* C4: on each engine, after import of a 2x2 block (at the origin, or across
\* the boundary of 64x64 blocks and of the root node), export() is the seed
\* after step(n) for every n >= 1.
BlockStillLife ==
    \A C \in { Block, BlockStraddle } :
        (Seeded(C) /\ hist.gens >= 1) =>
            \A k \in Engines : LiveCells(k, Engine(k)) = Range(C)

\* C4, its case: the block across the boundaries was imported and stepped,
\* and every engine still holds it.
BlockStillLifeWitness ==
    /\ Seeded(BlockStraddle)
    /\ hist.op = "step"
    /\ hist.gens = 8
    /\ \A k \in Engines : LiveCells(k, Engine(k)) = Range(BlockStraddle)

\* C5: on every engine and from every state, import(C) (clear, then set the
\* cells of C) leaves export() equal to C as a set: no coordinate of C is
\* missing and none is added.
ImportRoundTrip ==
    hist.op = "import" =>
        \A k \in Engines : LiveCells(k, Engine(k)) = Range(hist.arg)

\* C6: in every reachable state of every engine, population() is the number
\* of coordinates export() returns, and export() returns no coordinate twice.
PopulationIsExportSize ==
    \A k \in Engines :
        LET cells == EngineExport(k, Engine(k))
        IN  /\ EnginePopulation(k, Engine(k)) = Len(cells)
            /\ Cardinality(Range(cells)) = Len(cells)

\* C6, its case: a state with live cells on every engine, reached by setting
\* cells and stepping.
PopulationIsExportSizeWitness ==
    /\ hist.op = "step"
    /\ hist.arg = << 1 >>
    /\ \A k \in Engines : EnginePopulation(k, Engine(k)) > 4

\* C7: on every engine and for every n >= 0, step(n) returns n and adds n to
\* the generation counter; the advances of HashLife's iterations (max_jump
\* when the remaining steps allow it, 1 otherwise) sum to n.
StepAdvancesByN ==
    hist.op = "step" =>
        LET n == hist.arg[1]
        IN  /\ ret.sparse = n /\ ret.arena = n /\ ret.hash = n
            /\ sparse.generation = hist.before[1] + n
            /\ arena.generation = hist.before[2] + n
            /\ hash.generation = hist.before[3] + n
            /\ ret.taken = n

\* C7, its case: a step(8) that HashLife took as one warp of 8 generations.
StepAdvancesByNWitness ==
    /\ hist.op = "step"
    /\ hist.arg = << 8 >>
    /\ ret.jumps = 1
    /\ ret.hash = 8
    /\ hash.generation = 8

\* C8: in every reachable state of every engine, import(export()) leaves the
\* live cells unchanged: export() after the call equals export() before it.
ImportOfExportUnchanged ==
    \A k \in Engines :
        LiveCells(k, EngineImport(k, Engine(k), EngineExport(k, Engine(k))))
            = LiveCells(k, Engine(k))

\* C9: set_cell is idempotent on every engine: from every reachable state,
\* for every coordinate p (also one far from HashLife's root) and value v,
\* the live cells after set_cell(p, v); set_cell(p, v) are those after one
\* set_cell(p, v).
SetCellIdempotent ==
    \A k \in Engines, p \in Cells, v \in BOOLEAN :
        LET once == EngineSetCell(k, Engine(k), p, v)
        IN  LiveCells(k, EngineSetCell(k, once, p, v)) = LiveCells(k, once)

\* set_cell(c, alive) for each c of coords, in the order of coords
RECURSIVE SetEach(_, _, _, _, _)
SetEach(k, e, coords, alive, i) ==
    IF i > Len(coords) \/ ~Computed(e) THEN e
    ELSE SetEach(k, EngineSetCell(k, e, coords[i], alive), coords, alive, i + 1)

Reversed(q) == [i \in 1 .. Len(q) |-> q[Len(q) + 1 - i]]

\* the live cells after a following step(1), where the model computes it
AfterStep(k, e) ==
    IF k = "hash" /\ e.root.level > MaxStepLevel THEN {}
    ELSE LiveCells(k, EngineStep(k, e, 1).engine)

\* C10: on every engine and from every reachable state, one set_cells(coords,
\* alive) call yields the same live cells, and the same live cells after a
\* following step(1), as set_cell(c, alive) for each c of coords, in the
\* order of coords or in the opposite order.
BatchEqualsIndividual ==
    \A k \in Engines, coords \in Batches, alive \in BOOLEAN :
        LET batch == EngineSetCells(k, Engine(k), coords, alive)
        IN  \A order \in { coords, Reversed(coords) } :
                LET each == SetEach(k, Engine(k), order, alive, 1)
                IN  /\ LiveCells(k, each) = LiveCells(k, batch)
                    /\ AfterStep(k, each) = AfterStep(k, batch)

\* the cells around c, and c
Around(c) == { << c[1] + dx, c[2] + dy >> : dx \in -1 .. 1, dy \in -1 .. 1 }

\* B3/S23 on the unbounded plane: the live cells one generation after cells
LifeSuccessor(cells) ==
    { c \in UNION { Around(d) : d \in cells } :
        LET n == Cardinality((Around(c) \ { c }) \cap cells)
        IN  n = 3 \/ (n = 2 /\ c \in cells) }

RECURSIVE LifeAfter(_, _)
LifeAfter(cells, n) == IF n = 0 THEN cells ELSE LifeAfter(LifeSuccessor(cells), n - 1)

\* C15: from every reachable HashLife state and for every n >= 1, export()
\* after step(n) is the n-generation B3/S23 successor, on the unbounded plane,
\* of export() before it: no live cell is discarded, also none born just
\* outside the centred sub-node of the root.
HashStepExact ==
    hash.root.level <= MaxStepLevel =>
        \A n \in { 1, 2 } :
            LiveCells("hash", HashStep(hash, n).engine) = LifeAfter(LiveCells("hash", hash), n)

\* C16: at every call of evolve or evolve_1 made by HashLife::step the root
\* has level >= 5 and is_padded() holds: every step's expansion loop
\* established it.
PaddedBeforeEvolve == hist.op = "step" => ret.padded

\* C16, its case: a step after the import of the block across the corner of
\* the first root, which is not padded at level 5 and is expanded once more.
PaddedBeforeEvolveWitness ==
    /\ Seeded(BlockStraddle)
    /\ hist.op = "step"
    /\ hist.arg = << 2 >>
    /\ ret.jumps = 2
    /\ ret.padded

\* c lies in the root of h
InRoot(h, c) == Fits(h, c[1], c[2])

\* C17: each evolve or evolve_1 iteration of HashLife's step replaces the
\* padded root by a node one level smaller and adds 2^(L-1) to both origin
\* components, L the level of the new root, so that the cells of the new root
\* are the cells of the true evolution that lie in its square.
OriginTracksCentre ==
    hash.root.level <= MaxStepLevel =>
        \A n \in { 1, 8 } :
            LET p == PadLoop(hash, PAD_CAP)
                r == HashStep(hash, n)
            \* a step of n below the warp, other than 1, takes n iterations
            IN  (n = 1 \/ n >= Pow2(p.root.level - 2)) /\ r.jumps = 1 =>
                    /\ r.engine.root.level = p.root.level - 1
                    /\ r.engine.origin_x = p.origin_x + Pow2(r.engine.root.level - 1)
                    /\ r.engine.origin_y = p.origin_y + Pow2(r.engine.root.level - 1)
                    /\ LiveCells("hash", r.engine)
                         = { c \in LifeAfter(LiveCells("hash", hash), n) : InRoot(r.engine, c) }

\* C17, its case: the block at the origin after one warp of 8 generations:
\* the root is back at level 4 with its corner at the origin.
OriginTracksCentreWitness ==
    /\ Seeded(Block)
    /\ hist.op = "step"
    /\ ret.jumps = 1
    /\ ret.taken = 8
    /\ hash.root.level = 4
    /\ hash.origin_x = 0 /\ hash.origin_y = 0
    /\ LiveCells("hash", hash) = Range(Block)

\* the first coordinate below the reach of EXPAND_CAP doublings of the
\* cleared root
NearX == -(Pow2(EXPAND_CAP + 3) - 8) - 1

\* coordinates set and read in C18: next to the root, at the edge of the
\* reach of the doublings, and beyond it on either side
ProbeCells ==
    Cells \cup { << -1, -1 >>, << FarX - 1, 5 >>, << NearX + 1, 0 >>, << NearX, 0 >>,
                 << 3, NearX >> }

RECURSIVE FrameReach(_, _, _, _)
FrameReach(f, x, y, k) ==
    IF FrameFits(f, x, y) THEN TRUE
    ELSE IF k = 0 THEN FALSE
    ELSE FrameReach(FrameExpand(f), x, y, k - 1)

\* p lies in the root of h after k doublings, for some k <= EXPAND_CAP
WithinReach(h, p) == FrameReach(Frame(h), Wide(p[1]), Wide(p[2]), EXPAND_CAP)

\* C18: HashLife set_cell(p, v): if p lies in the root after at most 20
\* doublings then get_cell(p) = v afterwards; otherwise the call is dropped:
\* export() is what it was before the call.
SetCellFitsOrDrops ==
    \A p \in ProbeCells, v \in BOOLEAN :
        LET after == HashSetCell(hash, p, v)
        IN  IF WithinReach(hash, p) THEN HashGetCell(after, p) = v
            ELSE LiveCells("hash", after) = LiveCells("hash", hash)

\* C18, its case: a set_cell dropped beyond the reach of the doublings, in an
\* engine with live cells, and one that set its cell.
SetCellFitsOrDropsWitness ==
    /\ hist.op = "set_cell"
    /\ hist.alive
    /\ hash.root.population > 0
    /\ ~WithinReach(hash, << 3, NearX >>)
    /\ WithinReach(hash, << FarX - 1, 5 >>)
    /\ HashGetCell(HashSetCell(hash, << FarX - 1, 5 >>, TRUE), << FarX - 1, 5 >>)

I64Max == WideNorm(7, Limb - 1, Limb - 1)

I64Min == WideNorm(-8, 0, 0)

\* the ends of the range of i64 and a coordinate next to the origin
ExtremeCells ==
    { << I64Max, Wide(0) >>, << Wide(0), I64Min >>, << WidePow2(62), Wide(0) >>,
      << Wide(-1), Wide(-1) >> }

\* C20: for every i64 coordinate p and every reachable HashLife state,
\* set_cell(p, v) and get_cell(p) complete without arithmetic overflow:
\* p - origin stays in i64, the root level stays below 63, every shift is in
\* range.
HashTotalOnCoordinates ==
    /\ hash.root.level < 63
    /\ \A p \in ExtremeCells :
           ~HashSetCellOverflows(hash, p) /\ ~HashGetCellOverflows(hash, p)

\* C11: after switch_engine(mode) the universe holds an engine of the
\* requested kind whose export() equals the export() of the engine held just
\* before the switch, and whose generation counter is 0.
SwitchEnginePreservesCells ==
    host.op = "switch_engine" =>
        /\ host.after.kind = host.mode
        /\ host.after.cells = host.before
        /\ host.after.generation = 0

\* C12: at most one background step task is in flight at any time; a task
\* that polls as pending is put back and no task is spawned in that frame.
OneStepTask ==
    /\ Cardinality(InFlight) <= 1
    /\ (host.op = "step_universe" /\ host.polled = "pending") =>
            ~host.spawned /\ universe.step_task # None

\* C12, its case: a frame that found its task pending, spawned nothing and
\* left the one task in flight.
OneStepTaskWitness ==
    /\ host.op = "step_universe"
    /\ host.polled = "pending"
    /\ ~host.spawned
    /\ Len(pool) = 1
    /\ InFlight = { 1 }
    /\ universe.step_task = Some(1)

\* C13: clear, switch_engine, set_cell, add_cells and import run entirely
\* before or entirely after engine.step(steps_per_frame): none of them is
\* made while a task is inside step.
WritersExcludeStep == host.kind = "write" => ~host.mid

\* C13, its case: the host's last call was a writer, made after the task
\* was spawned, and the task is now between the two generations of step(2),
\* holding the write guard.
WritersExcludeStepWitness ==
    /\ MidStep
    /\ lock # 0
    /\ pool[lock].steps = 2
    /\ pool[lock].left = 1
    /\ host.kind = "write"
    /\ host.calls = MaxHostCalls

\* C14: draw_to_buffer, population and engine_name never observe a
\* mid-step state: none of them reads while a task is inside step.
ReadersSeeNoMidStep == host.kind = "read" => ~host.mid

\* C14, its case: a task is inside step, after its first pass and before it
\* ends, while the last call of the host was a read and more can follow.
ReadersSeeNoMidStepWitness ==
    /\ MidStep
    /\ lock # 0
    /\ pool[lock].left < pool[lock].steps
    /\ host.kind = "read"
    /\ host.calls < MaxHostCalls

SparseStepExact ==
    LiveCells("sparse", SparseStep(sparse, 1).engine)
        = LifeSuccessor(LiveCells("sparse", sparse))

\* C22, its case: one step of the blinker lying across two blocks: the turned
\* blinker has a cell born in block (0, -1), which import had not created.
SparseStepExactWitness ==
    /\ Seeded(Blinker)
    /\ hist.op = "step"
    /\ hist.gens = 1
    /\ << 0, -1 >> \in DOMAIN sparse.blocks
    /\ << 0, -1 >> \notin DOMAIN sparse.next_blocks
    /\ LiveCells("sparse", sparse) = Range(BlinkerTurned)

\* the block coordinates of the cells
BlocksOf(cells) == { GetCoords(c[1], c[2]).pos : c \in cells }

\* C29: in every reachable SparseLife state every block that contains a live
\* cell is in the active set, and to_evaluate, the active set dilated by one
\* block on each axis, contains every block that holds a live cell in the
\* next generation.
SparseFrontierComplete ==
    /\ BlocksOf(LiveCells("sparse", sparse)) \subseteq sparse.active
    /\ BlocksOf(LifeSuccessor(LiveCells("sparse", sparse))) \subseteq Dilate(sparse.active)

\* C29, its case: after a step of the blinker the turned blinker lives in
\* blocks that step made active, and the block of its next generation's
\* west cell is not stored and is in the dilated active set.
SparseFrontierCompleteWitness ==
    /\ Seeded(Blinker)
    /\ hist.op = "step"
    /\ hist.gens = 1
    /\ sparse.active = { << 0, -1 >>, << 0, 0 >> }
    /\ << -1, 0 >> \in BlocksOf(LifeSuccessor(LiveCells("sparse", sparse)))
    /\ << -1, 0 >> \notin DOMAIN sparse.blocks
    /\ << -1, 0 >> \in Dilate(sparse.active)

\* C27: in every state reachable by set_cell(p, true), set_cell(p, false),
\* set_cells, import, clear and step, the alive flag of each stored ArenaLife
\* block is true iff one of its 64 rows is non-zero.
ArenaAliveFlagIsRowsOr ==
    \A i \in 1 .. Len(arena.arena) :
        arena.arena[i].alive <=> (\E y \in Rows : arena.arena[i].rows[y] # {})

\* some row of the block is non-zero
HasLiveCell(rows) == \E y \in Rows : rows[y] # {}

\* C28: immediately after every step no stored block has all 64 rows zero,
\* in the block map of SparseLife and in the arena and the lookup of
\* ArenaLife, so that no more blocks are stored than contain a live cell.
NoEmptyBlockAfterStep ==
    (hist.op = "step" /\ hist.arg[1] >= 1) =>
        /\ \A p \in DOMAIN sparse.blocks : HasLiveCell(sparse.blocks[p])
        /\ \A i \in 1 .. Len(arena.arena) : HasLiveCell(arena.arena[i].rows)
        /\ \A p \in DOMAIN arena.lookup : HasLiveCell(arena.arena[arena.lookup[p]].rows)
        /\ Cardinality(DOMAIN sparse.blocks)
              <= Cardinality(BlocksOf(LiveCells("sparse", sparse)))
        /\ Len(arena.arena) <= Cardinality(BlocksOf(LiveCells("arena", arena)))

\* the direction facing d
Opposite(d) ==
    CASE d = N -> S [] d = S -> N [] d = W -> E [] d = E -> W
      [] d = NW -> SE [] d = SE -> NW [] d = NE -> SW [] d = SW -> NE

\* C26: in every reachable ArenaLife state, for every stored block at p and
\* every direction d, neighbors[d] is Some(i) iff a block is stored at
\* p + offset(d); i is then the arena index of that block, a live slot, and
\* that block's entry for the opposite direction is the index of the block
\* at p.
ArenaLinksComplete ==
    \A p \in DOMAIN arena.lookup, d \in Dirs :
        LET q    == GrowthTarget(p, d)
            link == arena.arena[arena.lookup[p]].neighbors[d]
        IN  /\ arena.lookup[p] \in 1 .. Len(arena.arena)
            /\ link # None <=> q \in DOMAIN arena.lookup
            /\ q \in DOMAIN arena.lookup =>
                   /\ link = Some(arena.lookup[q])
                   /\ arena.lookup[q] \in 1 .. Len(arena.arena)
                   /\ arena.arena[arena.lookup[q]].neighbors[Opposite(d)]
                        = Some(arena.lookup[p])

\* C26, its case: the four blocks of the 2x2 block across a block corner,
\* linked along both axes and both diagonals, and the blocks a step spawned
\* around them.
ArenaLinksCompleteWitness ==
    /\ Seeded(BlockStraddle)
    /\ hist.op = "step"
    /\ Len(arena.arena) > 4
    /\ arena.arena[arena.lookup[<< 0, 0 >>]].neighbors[NW] = Some(arena.lookup[<< -1, -1 >>])
    /\ arena.arena[arena.lookup[<< -1, -1 >>]].neighbors[SE] = Some(arena.lookup[<< 0, 0 >>])
    /\ arena.arena[arena.lookup[<< -1, 0 >>]].neighbors[E] = Some(arena.lookup[<< 0, 0 >>])

\* the border of the block facing d holds a live cell: row 0 faces N, row 63
\* S, the column of bit 0 (local x = 0) W, the column of bit 63 E
BorderLive(rows, d) ==
    CASE d = N  -> rows[0] # {}
      [] d = S  -> rows[BLOCK_SIZE - 1] # {}
      [] d = W  -> \E y \in Rows : 0 \in rows[y]
      [] d = E  -> \E y \in Rows : BLOCK_SIZE - 1 \in rows[y]
      [] d = NW -> 0 \in rows[0]
      [] d = NE -> BLOCK_SIZE - 1 \in rows[0]
      [] d = SW -> 0 \in rows[BLOCK_SIZE - 1]
      [] d = SE -> BLOCK_SIZE - 1 \in rows[BLOCK_SIZE - 1]

\* C25: at the start of every ArenaLife step, in every state reachable by
\* set_cell, set_cells, import and step, each stored block with a live cell
\* on a border row, column or corner has the adjacent block across that
\* border stored and linked.
ArenaBordersBacked ==
    \A p \in DOMAIN arena.lookup, d \in Dirs :
        LET block == arena.arena[arena.lookup[p]]
            q     == GrowthTarget(p, d)
        IN  BorderLive(block.rows, d) =>
                /\ q \in DOMAIN arena.lookup
                /\ block.neighbors[d] = Some(arena.lookup[q])

\* the block coordinate adjacent to p across the border facing d, by the
\* table of link
Adjacent(p, d) ==
    LET o == CHOOSE o \in Range(LinkOffsets) : o[3] = d
    IN  Offset(p, o[1], o[2])

\* C24: for each direction d the step of an ArenaLife block sets growth flag
\* d iff the block's border facing d is non-empty (row 0 for N, row 63 for S,
\* the column of bit 0 for W, of bit 63 for E, the matching corner bit for
\* the diagonals) and neighbour d is absent, and the step stores a block at
\* the coordinate adjacent across each such border.
GrowthFlagsPointOutward ==
    LET outward(i) == { d \in Dirs : /\ BorderLive(arena.arena[i].rows, d)
                                     /\ arena.arena[i].neighbors[d] = None }
    IN  /\ \A i \in 1 .. Len(arena.arena) :
               ArenaEvolveBlockInternal(arena.arena, i).growth = outward(i)
        /\ DOMAIN ArenaStepOnce(arena).lookup
              = DOMAIN arena.lookup
                \cup UNION { { Adjacent(p, d) : d \in outward(arena.lookup[p]) }
                             : p \in DOMAIN arena.lookup }

\* the rows of the block stored next to p in direction d, if any
BlockBeside(a, p, d) ==
    IF Adjacent(p, d) \in DOMAIN a.lookup
    THEN Some(a.arena[a.lookup[Adjacent(p, d)]].rows)
    ELSE None

\* C23: for every centre block and every content of its eight neighbour
\* blocks, each present or absent, the next rows and the alive flag returned
\* by ArenaLife::evolve_block_internal equal those returned by
\* SparseLife::evolve_block on the same inputs, also for the rows 1..62 whose
\* own up, centre and down rows are zero while the west or east neighbour has
\* live border cells.
EvolveBlocksAgree ==
    \A p \in DOMAIN arena.lookup :
        LET ra == ArenaEvolveBlockInternal(arena.arena, arena.lookup[p])
            rs == SparseEvolveBlock(arena.arena[arena.lookup[p]].rows,
                                    BlockBeside(arena, p, N), BlockBeside(arena, p, S),
                                    BlockBeside(arena, p, W), BlockBeside(arena, p, E),
                                    BlockBeside(arena, p, NW), BlockBeside(arena, p, NE),
                                    BlockBeside(arena, p, SW), BlockBeside(arena, p, SE))
        IN  /\ ra.rows = rs.rows
            /\ ra.alive = rs.alive

\* the largest power of two that does not exceed n, n >= 1
RECURSIVE FloorPow2(_)
FloorPow2(n) == IF n < 2 THEN 1 ELSE 2 * FloorPow2(n \div 2)

\* C30: in each iteration of HashLife::step the number of generations
\* advanced is the largest power of two that does not exceed the remaining
\* step count.
BinaryDecomposition ==
    hash.root.level <= MaxStepLevel =>
        \A steps \in StepCounts \ { 0 } :
            LET r == [engine |-> hash, steps |-> steps, taken |-> 0, jumps |-> 0,
                      padded |-> TRUE]
            IN  HashAdvance(PadLoop(hash, PAD_CAP), r).taken = FloorPow2(steps)

\* C21: b = a.box_clone() is an engine of the kind of a with the name(),
\* export() and population() of a, and no later set_cell, step, clear or
\* import on one of the two changes the export() of the other, although the
\* HashLife engines share their nodes and the memo slots of the nodes.
BoxCloneIndependent ==
    clones.b # 0 =>
        LET box_a == clones.store[clones.a]
            box_b == clones.store[clones.b]
        IN  /\ BoxExport(clones.heap, box_a) = kept.cells.a
            /\ BoxExport(clones.heap, box_b) = kept.cells.b
            /\ kept.op = "box_clone" =>
                   /\ BoxName(box_b) = BoxName(box_a)
                   /\ BoxExport(clones.heap, box_b) = BoxExport(clones.heap, box_a)
                   /\ BoxPopulation(clones.heap, box_b) = BoxPopulation(clones.heap, box_a)

\* C21, its case: a HashLife engine was cloned while it held the blinker and
\* then stepped once: it holds the turned blinker, the clone the blinker, and
\* the root of the clone is a node of the map of both caches.
BoxCloneIndependentWitness ==
    /\ clones.b # 0
    /\ clones.store[clones.a].kind = "hash"
    /\ kept.by = "a"
    /\ kept.op = "step"
    /\ kept.cells.a = Range(BlinkerTurned)
    /\ kept.cells.b = Range(Blinker)
    /\ clones.store[clones.b].state.root \in clones.store[clones.a].state.map
    /\ clones.store[clones.b].state.root \in clones.store[clones.b].state.map

EngineGetCell(k, e, pos) ==
    CASE k = "sparse" -> SparseGetCell(e, pos)
      [] k = "arena" -> ArenaGetCell(e, pos)
      [] k = "hash" -> HashGetCell(e, pos)

\* the coordinates read in C36 and C37: the live cells of the engine of kind
\* k, the cells around them and the probes on either side of the root
ReadCells(k) ==
    LET live == LiveCells(k, Engine(k))
    IN  live \cup UNION { Around(c) : c \in live } \cup ProbeCells

\* get_cell(p) is true iff p is in export(), at the coordinates of ReadCells
GetCellReadsExport(k) ==
    LET live == LiveCells(k, Engine(k))
    IN  \A p \in ReadCells(k) : EngineGetCell(k, Engine(k), p) = (p \in live)

\* C36: in every state reachable by any sequence of operations on any
\* engine, for every coordinate p, get_cell(p) returns, and returns true iff
\* p is in export().
GetCellAgreesWithExport ==
    /\ \A k \in Engines : GetCellReadsExport(k)
    /\ \A p \in ExtremeCells : ~HashGetCellOverflows(hash, p)

\* C36 away from the ends of i64: get_cell and export agree on every engine
GetCellAgreesNearby == \A k \in Engines : GetCellReadsExport(k)

\* the absolute difference of two counts
Distance(m, n) == IF m < n THEN n - m ELSE m - n

\* set_cell(p, v) on the engine e of kind k, for the probes p and both v:
\* before holds get_cell(q) of e at the live cells and the probes q
SetCellFrame(k, e, before, population) ==
    \A p \in ProbeCells, v \in BOOLEAN :
        LET after == EngineSetCell(k, e, p, v)
        IN  /\ \A q \in DOMAIN before \ { p } : EngineGetCell(k, after, q) = before[q]
            /\ \A q \in Around(p) \ { p } :
                   EngineGetCell(k, after, q) = EngineGetCell(k, e, q)
            /\ after.generation = e.generation
            /\ Distance(EnginePopulation(k, after), population) <= 1

\* C37: on every engine and from every reachable state, set_cell(p, v)
\* leaves get_cell(q) unchanged for every q different from p, leaves the
\* generation counter unchanged, and changes population() by at most one.
SetCellChangesOneCell ==
    \A k \in Engines :
        SetCellFrame(k, Engine(k),
                     Eager([q \in LiveCells(k, Engine(k)) \cup ProbeCells |->
                               EngineGetCell(k, Engine(k), q)]),
                     EnginePopulation(k, Engine(k)))

\* C37, its case: set_cell((0,0), false) on the engines that held the block
\* has left the other three cells of the block, on every engine.
SetCellChangesOneCellWitness ==
    /\ hist.op = "set_cell"
    /\ hist.arg = << << 0, 0 >> >>
    /\ ~hist.alive
    /\ \A k \in Engines :
           /\ LiveCells(k, Engine(k)) = Range(Block) \ { << 0, 0 >> }
           /\ EnginePopulation(k, Engine(k)) = 3

\* C32: expand() on a Branch root of level L leaves export() and
\* population() unchanged, raises the root level to L+1, subtracts 2^(L-1)
\* from both origin components, and makes is_padded() true.
ExpandPreservesWorld ==
    ~IsLeaf(hash.root) =>
        LET L == hash.root.level
            e == Expand(hash)
        IN  /\ HashExport(e) = HashExport(hash)
            /\ HashPopulation(e) = HashPopulation(hash)
            /\ e.root.level = L + 1
            /\ e.origin_x = hash.origin_x - Pow2(L - 1)
            /\ e.origin_y = hash.origin_y - Pow2(L - 1)
            /\ IsPadded(e)

\* C32, its case: the blinker in a root of level 5 whose centre does not hold
\* it; expand() moves the origin from -8 to -24 and pads the root.
ExpandPreservesWorldWitness ==
    /\ hash.root.level = 5
    /\ hash.origin_x = -8
    /\ LiveCells("hash", hash) = Range(Blinker)
    /\ ~IsPadded(hash)
    /\ IsPadded(Expand(hash))
    /\ Expand(hash).origin_x = -24
    /\ LiveCells("hash", Expand(hash)) = Range(Blinker)

\* the square of the plane that the root of a covers lies in that of b
RegionWithin(a, b) ==
    /\ a.origin_x >= b.origin_x
    /\ a.origin_y >= b.origin_y
    /\ a.origin_x + Pow2(a.root.level) <= b.origin_x + Pow2(b.root.level)
    /\ a.origin_y + Pow2(a.root.level) <= b.origin_y + Pow2(b.root.level)

\* the larger of two levels
MaxOf(m, n) == IF m < n THEN n ELSE m

\* this step of the behaviour is a call of step(n) with n >= 1
StepCalled == hist'.nops # hist.nops /\ hist'.op = "step" /\ hist'.arg[1] >= 1

\* C35: for every reachable HashLife state and every n >= 1, the world region
\* covered by the root after step(n) is contained in the region covered by
\* the root before the step, and the root level after the step is at most
\* max(4, level before the step).
StepNeverEnlarges ==
    [][StepCalled =>
           /\ RegionWithin(hash', hash)
           /\ hash'.root.level <= MaxOf(4, hash.root.level)]_vars

\* C35, its case: step(1) after import of the blinker expanded the root of
\* level 5 at (-8,-8) once and evolved it; the root is again of level 5 at
\* (-8,-8), with live cells.
StepNeverEnlargesWitness ==
    /\ Seeded(Blinker)
    /\ hist.op = "step"
    /\ hist.gens = 1
    /\ hash.generation = 1
    /\ hash.root.level = 5
    /\ hash.origin_x = -8
    /\ hash.origin_y = -8
    /\ hash.root.population > 0

\* one iteration of the loop of step with steps left: the padding ended by
\* its break, short of PAD_CAP expansions, and the advance taken is at least
\* one and at most steps
IterationCountsDown(h, steps) ==
    LET p == PadLoop(h, PAD_CAP)
        a == HashAdvance(p, [engine |-> h, steps |-> steps, taken |-> 0, jumps |-> 0,
                             padded |-> TRUE])
    IN  /\ p.root.level - h.root.level < PAD_CAP
        /\ p.root.level >= 5 /\ IsPadded(p)
        /\ a.taken >= 1
        /\ a.taken <= steps
        /\ a.steps = steps - a.taken
        /\ a.steps < steps

\* C39: for every reachable state and every n, the loop's remaining-step
\* counter strictly decreases in each iteration and never underflows (the
\* advance taken is at most the remaining count), and the inner expansion
\* loop ends within its bound, so step(n) returns after at most n iterations.
StepTerminates ==
    /\ hist.op = "step" => (ret.jumps <= hist.arg[1] /\ ret.hash = hist.arg[1])
    /\ hash.root.level <= MaxStepLevel =>
           \A steps \in { 1, 8 } : IterationCountsDown(hash, steps)

\* C39, its case: a step(4) on live cells that took four iterations of one
\* generation, the warp of the padded root being 8 or more.
StepTerminatesWitness ==
    /\ hist.op = "step"
    /\ hist.arg = << 4 >>
    /\ ret.jumps = 4
    /\ ret.taken = 4
    /\ hash.generation = hist.before[3] + 4
    /\ hash.root.population > 0

\* every Branch of level L under node has four children of level L-1, level 3
\* being a Leaf; the children of the canonical empty Branch are the empty
\* nodes one level down
RECURSIVE WellFormed(_)
WellFormed(node) ==
    CASE node = Panic -> FALSE
      [] node # Panic /\ IsLeaf(node) -> node.population = Cardinality(node.bits)
      [] node # Panic /\ IsEmptyBranch(node) -> TRUE
      [] OTHER ->
            /\ node.level > LEAF_LEVEL
            /\ \A child \in { node.nw, node.ne, node.sw, node.se } :
                   child.level = node.level - 1 /\ WellFormed(child)

\* the node that evolve or evolve_1 returned is a well formed node one level
\* below the root it was given: no centred helper took its panic branch
Evolved(root, next_node) == WellFormed(next_node) /\ next_node.level = root.level - 1

\* C31: in every reachable HashLife state every Branch of level L has four
\* children of level L-1 (level 3 being a Leaf), the root is a Branch of
\* level >= 4, and no call of centered_sub, centered_horizontal,
\* centered_vertical or calc_level_4_grid made through step, set_cell,
\* set_cells, import or clear reaches its panic branch.
QuadtreeWellFormed ==
    /\ hash.root.level >= 4
    /\ WellFormed(hash.root)
    /\ hash.root.level <= MaxStepLevel =>
           LET p == PadLoop(hash, PAD_CAP).root
           IN  /\ WellFormed(p)
               /\ Evolved(p, Evolve1(p))
               /\ p.level = 5 => Evolved(p, Evolve(p))

\* C31, its case: the block across the corner of the first root was stepped
\* twice from a padded root of level 6, whose centred helpers took their
\* Branch arms; the root that came back is well formed and holds the block.
QuadtreeWellFormedWitness ==
    /\ Seeded(BlockStraddle)
    /\ hist.op = "step"
    /\ hist.arg = << 2 >>
    /\ hash.root.level = 5
    /\ hash.root.population = 4
    /\ WellFormed(hash.root)
    /\ LET p == PadLoop(hash, PAD_CAP).root
       IN  p.level = 6 /\ Evolved(p, Evolve1(p))

\* this step of the behaviour is a frame of step_universe that found no task
\* held, or held a task that had completed
FrameFreeToSpawn ==
    /\ host'.calls # host.calls
    /\ host'.op = "step_universe"
    /\ \/ universe.step_task = None
       \/ pool[universe.step_task[1]].pc = "finished"

\* the generation counters that the tasks of a behaviour can reach
Generations == 0 .. 2 * MaxTasks

\* task id has taken the write guard of an engine at generation g and has
\* not stepped it yet
TaskBegun(id, g) ==
    /\ Len(pool) >= id
    /\ pool[id].pc = "stepping"
    /\ pool[id].left = pool[id].steps
    /\ universe.engine.state.generation = g

\* task id has completed and left the engine steps generations after g
TaskAdvanced(id, g) ==
    /\ Len(pool) >= id
    /\ pool[id].pc = "finished"
    /\ lock = 0
    /\ universe.engine.state.generation = g + pool[id].steps

\* C34: whenever step_universe runs with no task in flight, or with a task
\* that polls as complete, it spawns a new step task in that same frame; the
\* frame never waits for a guard (the only lock it takes is the read guard of
\* engine_name() after a completed task, when no write guard is held); and,
\* the pool running every task to its end, every spawned task takes the
\* write guard and advances the generation of the engine by its steps.
StepperMakesProgress ==
    /\ [][FrameFreeToSpawn =>
              /\ Len(pool') = Len(pool) + 1
              /\ universe'.step_task = Some(Len(pool'))
              /\ pool'[Len(pool')].pc = "spawned"]_vars
    /\ [](universe.step_task # None /\ pool[universe.step_task[1]].pc = "finished"
              => RwRead(lock))
    /\ \A id \in 1 .. MaxTasks :
           /\ (Len(pool) >= id) ~> (Len(pool) >= id /\ pool[id].pc = "finished")
           /\ \A g \in Generations : TaskBegun(id, g) ~> TaskAdvanced(id, g)

\* C34, its case: the second task, spawned by the frame that polled the first
\* as complete, has completed too, and the generation stands at the steps of
\* both.
StepperMakesProgressWitness ==
    /\ Len(pool) = 2
    /\ pool[1].pc = "finished"
    /\ pool[2].pc = "finished"
    /\ host.op = "step_universe"
    /\ host.polled = "ready"
    /\ host.spawned
    /\ universe.engine.state.generation = pool[1].steps + pool[2].steps

\* the generations that task id has added to the counter of an engine of
\* kind k: SparseLife and ArenaLife count each pass, HashLife adds the steps
\* when its loop has ended
CountedBy(k, id) ==
    IF k = "hash" THEN (IF pool[id].pc = "finished" THEN pool[id].steps ELSE 0)
    ELSE pool[id].steps - pool[id].left

\* C38: if switch_engine runs after a step task was spawned but before that
\* task acquired the write guard, the task steps the newly installed engine;
\* in no interleaving is a step applied to an engine that is no longer held
\* by the universe, and the installed engine is never replaced by a stale
\* one.  Since the last call of the host was switch_engine(mode), the
\* universe holds an engine of kind mode; a task that is stepping took the
\* guard after the switch and has stepped that engine from generation 0; a
\* task that has completed left it at 0 (it ended before the switch) or at
\* its steps.
PendingStepFollowsSwitch ==
    host.op = "switch_engine" =>
        /\ universe.engine.kind = host.mode
        /\ universe.step_task = None => universe.engine.state.generation = 0
        /\ universe.step_task # None =>
               LET id == universe.step_task[1]
                   generation == universe.engine.state.generation
               IN  CASE pool[id].pc = "spawned" -> generation = 0
                     [] pool[id].pc = "stepping" -> generation = CountedBy(host.mode, id)
                     [] pool[id].pc = "finished" ->
                            generation \in { 0, CountedBy(host.mode, id) }

\* C38, its case: switch_engine("sparse") found a task spawned and waiting;
\* the task then took the guard and stepped the SparseLife engine to the end.
PendingStepFollowsSwitchWitness ==
    /\ host.op = "switch_engine"
    /\ host.mode = "sparse"
    /\ ~host.mid
    /\ universe.engine.kind = "sparse"
    /\ universe.step_task # None
    /\ pool[universe.step_task[1]].pc = "finished"
    /\ universe.engine.state.generation = pool[universe.step_task[1]].steps
    /\ LiveCells("sparse", universe.engine.state) # {}

\* the pixel at column c and row r of a buffer drawn at scale shows this cell
CellOfPixel(rect, scale, p) ==
    << rect.min[1] + (p[1] \div scale), rect.min[2] + (p[2] \div scale) >>

\* C33: for each engine, an integer scale s >= 1, an integer rect.min and a
\* buffer of s * rect.width by s * rect.height, after draw_to_buffer the pixel
\* at column c and row r is non-zero iff the cell (rect.min.x + floor(c / s),
\* rect.min.y + floor(r / s)) is live, on the sparse and on the dense path;
\* the cell (5, 5) drawn from [0, 10) x [0, 10) into 10 x 10 sets exactly the
\* pixel of row 5 and column 5
RasteriserAtIntegerScale ==
    canvas.kind # "none" =>
        LET scale == canvas.width \div canvas.rect.width
        IN  /\ canvas.lit \subseteq Pixels(canvas.width, canvas.height)
            /\ \A p \in Pixels(canvas.width, canvas.height) :
                   p \in canvas.lit <=> CellOfPixel(canvas.rect, scale, p) \in canvas.live
            /\ canvas.live = { << 5, 5 >> } /\ canvas.rect.min = << 0, 0 >> /\ scale = 1
                   => canvas.lit = { << 5, 5 >> }

\* a buffer of the dense path at a scale above 1 with lit and dark pixels,
\* of a pattern that the rect shows in part
RasteriserAtIntegerScaleWitness ==
    /\ canvas.path = "dense"
    /\ canvas.width >= 2 * canvas.rect.width
    /\ canvas.lit # {}
    /\ canvas.lit # Pixels(canvas.width, canvas.height)
    /\ \E c \in canvas.live :
           \/ c[1] < canvas.rect.min[1]
           \/ c[2] < canvas.rect.min[2]

====
